---------------------------- MODULE Spec2Model ----------------------------
(***************************************************************************)
(* A model of the retrieval-and-citation pipeline of the AI knowledge      *)
(* assistant: the citation manager (app/citations.py), the tools, router   *)
(* and agent (app/agents.py), the conversation memory and RAG chain        *)
(* (app/retrieval.py) and the chat history of the first service            *)
(* (app/main.py).                                                          *)
(*                                                                         *)
(* Python strings are TLA+ strings (Len, SubSeq and \o act on them as on   *)
(* Python's len, slicing and +).  Python's None is the record None and a   *)
(* present optional value v is Some(v).  Relevance scores are integers in  *)
(* units of 1/10000, so 0.15 is 1500.                                      *)
(***************************************************************************)
EXTENDS Integers, Sequences, FiniteSets, TLC

VARIABLES
    str_hash,              \* the process's str hash (randomised per process)
    index_exists,          \* whether the Pinecone index named in the settings exists
    citations,             \* CitationManager.citations
    cm_input,              \* the argument of the last create_citations_from_results
    cm_prev,               \* the citations held when it was called
    pc,                    \* where AgentExecutor.run stands
    turn,                  \* how many times run has been entered
    query,                 \* run's argument
    store_relevant,        \* whether the store returned a passage scored at least min_relevance
    store_raised,          \* whether the retrieval of this turn raised
    has_docs,              \* run's locals ...
    doc_results,
    intent,
    tool_used,
    context,
    web_results,
    web_sources,
    sources,
    calc_result,
    prompt,                \* the messages _generate_response sent to the completion provider in this turn
    steps,                 \* the calls and updates run has made in this turn, in order
    result,                \* what run returned
    conversation_history,  \* AgentExecutor.conversation_history
    agent_log,             \* every message run has appended since the last clear
    expression,            \* CalculatorTool.calculate's argument
    calc_out,              \* what calculate returned
    evaluated,             \* whether calculate reached its eval call
    ws_query,              \* WebSearchTool.search's argument
    ws_provider,           \* what the provider's search call does: Some(response), or None when it raises
    ws_out,                \* what search returned
    ci_completion,         \* the text the router's completion call returned
    ci_has_docs,           \* classify_intent's has_relevant_docs argument
    ci_out,                \* what classify_intent returned
    store_results,         \* what similarity_search_with_score returns to a retrieval on its own
    relevance_out,         \* what _check_document_relevance returned for it
    retrieved_out,         \* what retrieve_with_scores returned for it
    getter,                \* which lazily constructing function the requests call
    instance,              \* its module global: None, or the object it holds
    ctor_calls,            \* how many times the constructor has been entered
    built,                 \* how many objects the constructor has returned
    calls,                 \* each request's call of the function: where it stands, its new object, what it returned
    running,               \* the request whose handler the event loop is running, if any
    runs,                  \* each request's call of run on the shared agent: where it stands and its locals
    up_filename,           \* file.filename of an upload request
    up_pc,                 \* where upload_document stands
    up_saved,              \* whether the uploaded file is in the uploads directory
    up_loader,             \* the loader load_document chose, or "unsupported", or "" before it is called
    up_out,                \* the handler's response
    cs_out,                \* what get_citations_summary returned for the citations held
    rd_history,            \* a history given to the two renderings of the recent conversation
    rd_agent,              \* conv_context as _generate_response renders it
    rd_memory,             \* what get_context_string returns for it
    sn_content,            \* the content given to _create_snippet
    sn_max_length,         \* its max_length
    sn_out,                \* the snippet returned
    service,               \* which of the programs this process is
    messages,              \* ConversationMemory.messages of the RAG chain
    mem_log,               \* every message added to it since the last clear
    rag_pc,                \* where RAGChain.query stands in its memory update
    chat_history,          \* the chat_history global of app/main.py
    chat_log,              \* every message appended to it since the last clear
    rag_question,          \* RAGChain.query's question
    rag_store,             \* what the store did in this query: "not called", "returned" or "raised"
    rag_retrieved,         \* how retrieve_with_scores ended: None (not called), or [raised, value]
    rag_context,           \* query's locals ...
    rag_sources,
    rag_used_rag,
    rag_response,
    rag_prompt,            \* the messages query sent to the completion provider
    rag_result             \* what query returned

envVars == <<str_hash, index_exists>>
citeVars == <<citations, cm_input, cm_prev>>
runVars == <<pc, turn, query, store_relevant, store_raised, has_docs, doc_results, intent, tool_used, context, web_results, web_sources, sources, calc_result, prompt, steps, result>>
histVars == <<conversation_history, agent_log>>
calcVars == <<expression, calc_out, evaluated>>
webVars == <<ws_query, ws_provider, ws_out>>
routeVars == <<ci_completion, ci_has_docs, ci_out>>
retrVars == <<store_results, relevance_out, retrieved_out>>
singleVars == <<getter, instance, ctor_calls, built, calls, running>>
uploadVars == <<up_filename, up_pc, up_saved, up_loader, up_out>>
otherTools == <<calcVars, webVars, routeVars, retrVars, singleVars, runs, uploadVars>>
pureVars == <<cs_out, rd_history, rd_agent, rd_memory, sn_content, sn_max_length, sn_out>>
toolVars == <<otherTools, pureVars>>
ragVars == <<rag_question, rag_store, rag_retrieved, rag_context, rag_sources, rag_used_rag, rag_response, rag_prompt, rag_result>>
memVars == <<service, messages, mem_log, rag_pc, chat_history, chat_log>>
vars == <<envVars, citeVars, runVars, histVars, toolVars, memVars, ragVars>>

---------------------------------------------------------------------------
(* Python values *)

None == [some |-> FALSE]
Some(v) == [some |-> TRUE, val |-> v]

Min(a, b) == IF a < b THEN a ELSE b
Max(a, b) == IF a > b THEN a ELSE b

\* s[:n] for n >= 0
Take(s, n) == SubSeq(s, 1, Min(n, Len(s)))

\* s[-n:] for n > 0
LastN(s, n) == SubSeq(s, Max(1, Len(s) - n + 1), Len(s))

\* s[i] as a one-character string (1-based)
CharAt(s, i) == SubSeq(s, i, i)

\* c * n, built by halving
RECURSIVE Rep(_, _)
Rep(c, n) == IF n <= 0 THEN "" ELSE IF n = 1 THEN c ELSE LET half == Rep(c, n \div 2) IN IF n % 2 = 0 THEN half \o half ELSE half \o half \o c

RECURSIVE Join(_, _)
Join(sep, parts) == IF Len(parts) = 0 THEN "" ELSE IF Len(parts) = 1 THEN parts[1] ELSE parts[1] \o sep \o Join(sep, Tail(parts))

(* In what follows, CHOOSE y \in {body : x \in {e}} : TRUE is body with x
   standing for the value of e, which is computed once. *)

RECURSIVE SeqsUpTo(_, _)
SeqsUpTo(S, n) == IF n = 0 THEN {<<>>} ELSE LET shorter == SeqsUpTo(S, n - 1) IN shorter \cup {Append(s, x) : s \in {t \in shorter : Len(t) = n - 1}, x \in S}

---------------------------------------------------------------------------
(* Model inputs: the passages the vector store can return *)

\* the longest result list the model's vector store returns (at most RetrievalK)
MaxResults == 2

\* the number of characters of page_content that are fingerprinted
PrefixLen == 200

\* the default snippet_length of create_citations_from_results
SnippetLength == 150

\* k of the agent's similarity_search_with_score call
RetrievalK == 4

\* AgentExecutor.min_relevance, 0.15
min_relevance == 1500

\* two passages that agree on their first 200 characters and differ after them
DocA1 == [page_content |-> Rep("a", PrefixLen) \o "x", metadata |-> [source |-> "a.pdf", page |-> 0, chunk_index |-> 0]]
DocA2 == [page_content |-> Rep("a", PrefixLen) \o "y", metadata |-> [source |-> "b.pdf", page |-> 4, chunk_index |-> 1]]

\* a short passage with little metadata
DocB == [page_content |-> "Bob  is.\tA cat", metadata |-> [chunk_index |-> 2]]

Docs == {DocA1, DocA2, DocB}

\* the result lists create_citations_from_results is applied to on its own
CiteResults == SeqsUpTo({<<DocA1, 7500>>, <<DocA2, 5004>>, <<DocB, 5004>>}, Min(MaxResults, RetrievalK))

\* what it returns to the model's agent: two passages, at 0.1 and at 0.5004
AgentStoreResults == SeqsUpTo({<<d, s>> : d \in {DocA1, DocB}, s \in {1000, 5004}}, Min(MaxResults, RetrievalK))

Prefixes == {Take(d.page_content, PrefixLen) : d \in Docs}

\* the str hash functions a process can start with: a hash value matters only
\* by which strings share it, so as many values as strings, the first string
\* hashed to 1, give every case
StrHashes == {h \in [Prefixes -> 1 .. Cardinality(Prefixes)] : h[Take(DocA1.page_content, PrefixLen)] = 1}

---------------------------------------------------------------------------
(* app/citations.py *)

\* dict.get(key, default)
Get(md, key, default) == IF key \in DOMAIN md THEN md[key] ELSE default

\* hash(s) of a str, fixed for the life of the process
PyHash(s) == str_hash[s]

\* round(score, 3); a tie (a 5 in the fourth decimal) goes to the even neighbour
Round3(score) == LET q == score \div 10  r == score % 10 IN IF r > 5 \/ (r = 5 /\ q % 2 = 1) THEN (q + 1) * 10 ELSE q * 10

IsSpace(c) == c \in {" ", "\t", "\n", "\r", "\f"}

SetMin(S) == CHOOSE x \in S : \A y \in S : x <= y
SetMax(S) == CHOOSE x \in S : \A y \in S : x >= y

\* the indices at which a maximal run of non-whitespace starts
WordStarts(s) == {i \in 1 .. Len(s) : ~IsSpace(CharAt(s, i)) /\ (i = 1 \/ IsSpace(CharAt(s, i - 1)))}

\* the run of non-whitespace that starts at s[i]
WordAt(s, i) == SubSeq(s, i, SetMin({j \in i .. Len(s) : j = Len(s) \/ IsSpace(CharAt(s, j + 1))}))

\* the k-th smallest member of a set of numbers
Kth(S, k) == CHOOSE x \in S : Cardinality({y \in S : y < x}) = k - 1

\* str.split() with no argument: the maximal runs of non-whitespace, in order
SplitWs(s) == (CHOOSE y \in {[k \in 1 .. Cardinality(starts) |-> WordAt(s, Kth(starts, k))] : starts \in {WordStarts(s)}} : TRUE)

\* str.rfind(c): the 0-based index of the last c, or -1
RFind(s, c) == LET at == {i \in 1 .. Len(s) : CharAt(s, i) = c} IN IF at = {} THEN -1 ELSE SetMax(at) - 1

\* _create_snippet after its whitespace clean-up
MutSnippetOfPeriodAtHalf(cleaned, max_length) ==
    LET truncated == Take(cleaned, max_length)
        last_period == RFind(truncated, ".")
        last_space == RFind(truncated, " ")
    IN  IF Len(cleaned) <= max_length THEN cleaned
        ELSE IF 2 * last_period >= max_length THEN Take(truncated, last_period + 1)
        ELSE IF last_space > 0 THEN Take(truncated, last_space) \o "..."
        ELSE truncated \o "..."

SnippetOf(cleaned, max_length) ==
    LET truncated == Take(cleaned, max_length)
        last_period == RFind(truncated, ".")
        last_space == RFind(truncated, " ")
    IN  IF Len(cleaned) <= max_length THEN cleaned
        ELSE IF 2 * last_period > max_length THEN Take(truncated, last_period + 1)
        ELSE IF last_space > 0 THEN Take(truncated, last_space) \o "..."
        ELSE truncated \o "..."

\* CitationManager._create_snippet
create_snippet(content, max_length) == (CHOOSE y \in {SnippetOf(cleaned, max_length) : cleaned \in {Join(" ", SplitWs(content))}} : TRUE)

\* the Citation built for (doc, score) when n citations exist already
NewCitation(doc, score, n) ==
    [citation_id |-> n + 1,
     source |-> Get(doc.metadata, "source", "Unknown"),
     page |-> Get(doc.metadata, "page", 0) + 1,
     chunk_index |-> Get(doc.metadata, "chunk_index", 0),
     relevance_score |-> Round3(score),
     snippet |-> create_snippet(doc.page_content, SnippetLength),
     full_content |-> doc.page_content]

\* the loop of create_citations_from_results from index i on
RECURSIVE CiteLoop(_, _, _, _)
CiteLoop(results, i, seen_content, acc) ==
    IF i > Len(results) THEN acc
    ELSE LET doc == results[i][1]
             score == results[i][2]
             content_hash == PyHash(Take(doc.page_content, PrefixLen))
         IN  IF content_hash \in seen_content
                 THEN CiteLoop(results, i + 1, seen_content, acc)
                 ELSE (CHOOSE y \in {CiteLoop(results, i + 1, seen_content \cup {content_hash}, acc2) : acc2 \in {Append(acc, NewCitation(doc, score, Len(acc)))}} : TRUE)

MutCitationsKeepOld(held, results) == held \o CiteLoop(results, 1, {}, <<>>)

\* CitationManager.create_citations_from_results: the new self.citations
\* (held is self.citations before the call)
create_citations_from_results(held, results) == CiteLoop(results, 1, {}, <<>>)

\* round(sum / n, 3) of scores that sum to total: the nearest thousandth, a
\* tie going to the even neighbour
RoundMean3(total, n) == LET q == total \div (10 * n)  r == total % (10 * n) IN IF 2 * r > 10 * n \/ (2 * r = 10 * n /\ q % 2 = 1) THEN (q + 1) * 10 ELSE q * 10

RECURSIVE SumScores(_)
SumScores(cs) == IF Len(cs) = 0 THEN 0 ELSE Head(cs).relevance_score + SumScores(Tail(cs))

MutAverageNotDivided(cs) == Round3(SumScores(cs))

\* round(sum(c.relevance_score for c in self.citations) / len(self.citations), 3)
AverageRelevance(cs) == RoundMean3(SumScores(cs), Len(cs))

get_relevance_label(c) == IF c.relevance_score >= 7000 THEN "High" ELSE IF c.relevance_score >= 4000 THEN "Medium" ELSE IF c.relevance_score >= 2000 THEN "Low" ELSE "Minimal"

\* Citation.to_dict; a score is kept as the number it is
to_dict(c) == [id |-> c.citation_id, source |-> c.source, page |-> c.page, chunk_index |-> c.chunk_index, relevance_score |-> c.relevance_score, relevance_label |-> get_relevance_label(c), snippet |-> c.snippet]

CitationBlock(c) == "[Source " \o ToString(c.citation_id) \o ": " \o c.source \o ", Page " \o ToString(c.page) \o "]\n" \o c.full_content

\* CitationManager.build_context_with_citations
build_context_with_citations(cs) == IF Len(cs) = 0 THEN "" ELSE Join("\n\n---\n\n", [i \in 1 .. Len(cs) |-> CitationBlock(cs[i])])

\* CitationManager.get_citations_summary; list(set(...)) has no order of its
\* own and is kept as the set
get_citations_summary(cs) ==
    IF Len(cs) = 0
        THEN [total_sources |-> 0, sources |-> <<>>, average_relevance |-> 0]
        ELSE [total_sources |-> Len(cs),
              unique_documents |-> Cardinality({cs[i].source : i \in 1 .. Len(cs)}),
              documents |-> {cs[i].source : i \in 1 .. Len(cs)},
              average_relevance |-> AverageRelevance(cs),
              citations |-> [i \in 1 .. Len(cs) |-> to_dict(cs[i])]]

\* CitationManager.format_sources_for_response
format_sources_for_response(cs) == IF Len(cs) = 0 THEN None ELSE Some([i \in 1 .. Len(cs) |-> to_dict(cs[i])])

---------------------------------------------------------------------------
(* app/agents.py: what eval(cleaned, {"__builtins__": {}}, {}) does on a     *)
(* string of whitelisted characters.  A value is an int, a float (kept as  *)
(* the exact fraction n/d), the empty tuple, a float whose digits are not  *)
(* followed ("inexact": a fractional power) or a raised exception.         *)

IntV(n) == [k |-> "int", n |-> n, d |-> 1]
TupleV == [k |-> "tuple", n |-> 0, d |-> 1]
InexactV == [k |-> "inexact", n |-> 0, d |-> 1]
EllipsisV == [k |-> "ellipsis", n |-> 0, d |-> 1]
ErrV(e) == [k |-> "err", n |-> 0, d |-> 1, e |-> e]

Abs(n) == IF n < 0 THEN -n ELSE n

RECURSIVE Gcd(_, _)
Gcd(a, b) == IF b = 0 THEN a ELSE Gcd(b, a % b)

RECURSIVE Pow(_, _)
Pow(b, e) == IF e <= 0 THEN 1 ELSE b * Pow(b, e - 1)

\* the value n/d in lowest terms with d > 0
Frac(kind, n, d) == LET g == Gcd(Abs(n), Abs(d))  sgn == IF d < 0 THEN -1 ELSE 1 IN [k |-> kind, n |-> sgn * (n \div g), d |-> sgn * (d \div g)]

\* floor(n/d) for d > 0
FloorDiv(n, d) == n \div d

Digits == {"0", "1", "2", "3", "4", "5", "6", "7", "8", "9"}

DigitVal(c) == CHOOSE v \in 0 .. 9 : ToString(v) = c

RECURSIVE DigitsEnd(_, _)
DigitsEnd(s, i) == IF i <= Len(s) /\ CharAt(s, i) \in Digits THEN DigitsEnd(s, i + 1) ELSE i

\* the number the first k digits of ds write
RECURSIVE NumValTo(_, _)
NumValTo(ds, k) == IF k = 0 THEN 0 ELSE 10 * NumValTo(ds, k - 1) + DigitVal(CharAt(ds, k))

NumVal(ds) == NumValTo(ds, Len(ds))

\* the number literal starting at s[i]: [ok, v, p] with p the index after it
LexNumber(s, i) ==
    LET e1 == DigitsEnd(s, i)
        d1 == SubSeq(s, i, e1 - 1)
        dot == e1 <= Len(s) /\ CharAt(s, e1) = "."
        e2 == IF dot THEN DigitsEnd(s, e1 + 1) ELSE e1
        d2 == IF dot THEN SubSeq(s, e1 + 1, e2 - 1) ELSE ""
    IN  IF dot
            THEN IF d1 = "" /\ d2 = "" THEN [ok |-> FALSE, v |-> IntV(0), p |-> i]
                 ELSE [ok |-> TRUE, v |-> Frac("float", NumVal(d1 \o d2), Pow(10, Len(d2))), p |-> e2]
            ELSE IF Len(d1) > 1 /\ CharAt(d1, 1) = "0" /\ NumVal(d1) # 0 THEN [ok |-> FALSE, v |-> IntV(0), p |-> i]
                 ELSE [ok |-> TRUE, v |-> IntV(NumVal(d1)), p |-> e1]

\* the tokens of s from index i on, or <<[t |-> "bad"]>> appended on a lexical error
RECURSIVE Tokens(_, _, _)
Tokens(s, i, acc) ==
    IF i > Len(s) THEN acc
    ELSE LET c == CharAt(s, i)
             c2 == SubSeq(s, i, Min(i + 1, Len(s)))
         IN  IF c = " " THEN Tokens(s, i + 1, acc)
             ELSE IF c2 \in {"**", "//"} THEN Tokens(s, i + 2, Append(acc, [t |-> c2, v |-> IntV(0)]))
             ELSE IF c \in {"+", "-", "*", "/", "%", "(", ")"} THEN Tokens(s, i + 1, Append(acc, [t |-> c, v |-> IntV(0)]))
             ELSE IF SubSeq(s, i, Min(i + 2, Len(s))) = "..." THEN Tokens(s, i + 3, Append(acc, [t |-> "num", v |-> EllipsisV]))
             ELSE IF c \in Digits \cup {"."}
                 THEN (CHOOSE y \in {IF num.ok THEN Tokens(s, num.p, Append(acc, [t |-> "num", v |-> num.v])) ELSE Append(acc, [t |-> "bad", v |-> IntV(0)]) : num \in {LexNumber(s, i)}} : TRUE)
             ELSE Append(acc, [t |-> "bad", v |-> IntV(0)])

IsNum(a) == a.k \in {"int", "float", "inexact"}
IsZero(a) == a.k \in {"int", "float"} /\ a.n = 0
FloatIf(a, b) == IF a.k = "float" \/ b.k = "float" THEN "float" ELSE "int"

\* a ** b for exact numbers a and b
PowV(a, b) ==
    IF b.d = 1
        THEN IF b.n >= 0 THEN Frac(FloatIf(a, b), Pow(a.n, b.n), Pow(a.d, b.n))
             ELSE IF a.n = 0 THEN ErrV("ZeroDivisionError")
             ELSE Frac("float", Pow(a.d, -b.n), Pow(a.n, -b.n))
        ELSE IF a.n = 0 THEN (IF b.n > 0 THEN Frac("float", 0, 1) ELSE ErrV("ZeroDivisionError"))
             ELSE InexactV

\* a op b, the operands already evaluated, left first
BinOp(op, a, b) ==
    IF a.k = "err" THEN a
    ELSE IF b.k = "err" THEN b
    ELSE IF a.k = "tuple" \/ b.k = "tuple"
        THEN IF op = "+" /\ a.k = "tuple" /\ b.k = "tuple" THEN TupleV
             ELSE IF op = "*" /\ (a.k = "int" \/ b.k = "int") THEN TupleV
             ELSE ErrV("TypeError")
    ELSE IF op \in {"/", "//", "%"} /\ IsZero(b) THEN ErrV("ZeroDivisionError")
    ELSE IF op = "**" /\ a.k # "inexact" /\ b.k # "inexact" THEN PowV(a, b)
    ELSE IF a.k = "inexact" \/ b.k = "inexact" THEN InexactV
    ELSE IF op = "+" THEN Frac(FloatIf(a, b), a.n * b.d + b.n * a.d, a.d * b.d)
    ELSE IF op = "-" THEN Frac(FloatIf(a, b), a.n * b.d - b.n * a.d, a.d * b.d)
    ELSE IF op = "*" THEN Frac(FloatIf(a, b), a.n * b.n, a.d * b.d)
    ELSE IF op = "/" THEN Frac("float", a.n * b.d, a.d * b.n)
    ELSE LET q == Frac("int", a.n * b.d, a.d * b.n)
             fl == FloorDiv(q.n, q.d)
         IN  IF op = "//" THEN Frac(FloatIf(a, b), fl, 1)
             ELSE Frac(FloatIf(a, b), a.n * b.d - fl * b.n * a.d, a.d * b.d)

\* +a and -a
UnOp(op, a) == IF a.k = "err" THEN a ELSE IF a.k = "tuple" THEN ErrV("TypeError") ELSE IF op = "-" /\ a.k # "inexact" THEN Frac(a.k, -a.n, a.d) ELSE a

\* calling a value: the callee and the argument are evaluated, then the call fails
CallOp(a, b) == IF a.k = "err" THEN a ELSE IF b.k = "err" THEN b ELSE ErrV("TypeError")

NoParse == [ok |-> FALSE, v |-> IntV(0), p |-> 0]
Parsed(v, p) == [ok |-> TRUE, v |-> v, p |-> p]
TokAt(toks, p) == IF p <= Len(toks) THEN toks[p].t ELSE "end"

RECURSIVE ParseExpr(_, _), ExprRest(_, _), ParseTerm(_, _), TermRest(_, _), ParseFactor(_, _), PowerRest(_, _), ParsePower(_, _), ParseAtom(_, _), Trailers(_, _)

\* expr: term (("+" | "-") term)*
ParseExpr(toks, p) == (CHOOSE y \in {IF l.ok THEN ExprRest(toks, l) ELSE NoParse : l \in {ParseTerm(toks, p)}} : TRUE)

ExprRest(toks, l) ==
    IF TokAt(toks, l.p) \in {"+", "-"}
        THEN (CHOOSE y \in {IF r.ok THEN ExprRest(toks, Parsed(BinOp(TokAt(toks, l.p), l.v, r.v), r.p)) ELSE NoParse : r \in {ParseTerm(toks, l.p + 1)}} : TRUE)
        ELSE l

\* term: factor (("*" | "/" | "//" | "%") factor)*
ParseTerm(toks, p) == (CHOOSE y \in {IF l.ok THEN TermRest(toks, l) ELSE NoParse : l \in {ParseFactor(toks, p)}} : TRUE)

TermRest(toks, l) ==
    IF TokAt(toks, l.p) \in {"*", "/", "//", "%"}
        THEN (CHOOSE y \in {IF r.ok THEN TermRest(toks, Parsed(BinOp(TokAt(toks, l.p), l.v, r.v), r.p)) ELSE NoParse : r \in {ParseFactor(toks, l.p + 1)}} : TRUE)
        ELSE l

\* factor: ("+" | "-") factor | power
ParseFactor(toks, p) ==
    IF TokAt(toks, p) \in {"+", "-"}
        THEN (CHOOSE y \in {IF r.ok THEN Parsed(UnOp(TokAt(toks, p), r.v), r.p) ELSE NoParse : r \in {ParseFactor(toks, p + 1)}} : TRUE)
        ELSE ParsePower(toks, p)

\* the rest of a power after its atom and trailers, l
PowerRest(toks, l) ==
    IF ~l.ok THEN NoParse
    ELSE IF TokAt(toks, l.p) = "**"
        THEN (CHOOSE y \in {IF r.ok THEN Parsed(BinOp("**", l.v, r.v), r.p) ELSE NoParse : r \in {ParseFactor(toks, l.p + 1)}} : TRUE)
    ELSE l

\* power: atom trailer* ["**" factor]
ParsePower(toks, p) == (CHOOSE y \in {(CHOOSE y \in {PowerRest(toks, l) : l \in {IF a.ok THEN Trailers(toks, a) ELSE NoParse}} : TRUE) : a \in {ParseAtom(toks, p)}} : TRUE)

\* trailer: "(" [expr] ")"
Trailers(toks, l) ==
    IF TokAt(toks, l.p) = "("
        THEN IF TokAt(toks, l.p + 1) = ")" THEN Trailers(toks, Parsed(CallOp(l.v, IntV(0)), l.p + 2))
             ELSE (CHOOSE y \in {IF r.ok /\ TokAt(toks, r.p) = ")" THEN Trailers(toks, Parsed(CallOp(l.v, r.v), r.p + 1)) ELSE NoParse : r \in {ParseExpr(toks, l.p + 1)}} : TRUE)
        ELSE l

\* atom: NUMBER | "(" ")" | "(" expr ")"
ParseAtom(toks, p) ==
    IF TokAt(toks, p) = "num" THEN Parsed(toks[p].v, p + 1)
    ELSE IF TokAt(toks, p) = "("
        THEN IF TokAt(toks, p + 1) = ")" THEN Parsed(TupleV, p + 2)
             ELSE (CHOOSE y \in {IF r.ok /\ TokAt(toks, r.p) = ")" THEN Parsed(r.v, r.p + 1) ELSE NoParse : r \in {ParseExpr(toks, p + 1)}} : TRUE)
    ELSE NoParse

\* eval(s): the value, or the exception raised
PyEval(s) == (CHOOSE y \in {(CHOOSE y \in {IF r.ok /\ r.p = Len(toks) + 1 THEN r.v ELSE ErrV("SyntaxError") : r \in {ParseExpr(toks, 1)}} : TRUE) : toks \in {Tokens(s, 1, <<>>)}} : TRUE)

---------------------------------------------------------------------------
(* app/agents.py: the tools *)

\* str.strip(): from the first to the last character that is no whitespace
Strip(s) == (CHOOSE y \in {IF at = {} THEN "" ELSE SubSeq(s, SetMin(at), SetMax(at)) : at \in {{i \in 1 .. Len(s) : ~IsSpace(CharAt(s, i))}}} : TRUE)

UpperCase == "ABCDEFGHIJKLMNOPQRSTUVWXYZ"
LowerCase == "abcdefghijklmnopqrstuvwxyz"

LowerChar(c) == IF \E i \in 1 .. Len(UpperCase) : CharAt(UpperCase, i) = c THEN CharAt(LowerCase, CHOOSE i \in 1 .. Len(UpperCase) : CharAt(UpperCase, i) = c) ELSE c

\* str.lower()
Lower(s) == Join("", [i \in 1 .. Len(s) |-> LowerChar(CharAt(s, i))])

\* set("0123456789+-*/.() %")
allowed_chars == Digits \cup {"+", "-", "*", "/", ".", "(", ")", " ", "%"}

MutAllAllowedUnderscore(cleaned) == \A i \in 1 .. Len(cleaned) : CharAt(cleaned, i) = " " \/ CharAt(cleaned, i) \in allowed_chars \/ CharAt(cleaned, i) = "_"

\* all(c in allowed_chars for c in cleaned.replace(" ", ""))
AllAllowed(cleaned) == \A i \in 1 .. Len(cleaned) : CharAt(cleaned, i) = " " \/ CharAt(cleaned, i) \in allowed_chars

MutEvaluateUncaught(expr, cleaned) == (CHOOSE y \in {IF value.k = "err" THEN [out |-> [raised |-> value.e], evaluated |-> TRUE] ELSE [out |-> [success |-> TRUE, expression |-> expr, result |-> value], evaluated |-> TRUE] : value \in {PyEval(cleaned)}} : TRUE)

\* CalculatorTool.calculate: [out: the dict returned, evaluated: whether eval was called];
\* an error message is the name of the exception raised
Evaluate(expr, cleaned) == (CHOOSE y \in {IF value.k = "err" THEN [out |-> [success |-> FALSE, expression |-> expr, error |-> value.e], evaluated |-> TRUE] ELSE [out |-> [success |-> TRUE, expression |-> expr, result |-> value], evaluated |-> TRUE] : value \in {PyEval(cleaned)}} : TRUE)

calculate(expr) == (CHOOSE y \in {IF ~AllAllowed(cleaned) THEN [out |-> [success |-> FALSE, expression |-> expr, error |-> "Invalid characters in expression"], evaluated |-> FALSE] ELSE Evaluate(expr, cleaned) : cleaned \in {Strip(expr)}} : TRUE)

\* str(result) of a value eval returned; the digits of a float that is no
\* whole number are not followed
PyStr(v) == IF v.k = "int" THEN ToString(v.n) ELSE IF v.k = "tuple" THEN "()" ELSE IF v.k = "ellipsis" THEN "Ellipsis" ELSE IF v.k = "float" /\ v.d = 1 THEN ToString(v.n) \o ".0" ELSE "<float>"

\* what the search provider can answer
WebItem1 == [title |-> "T1", url |-> "http://u1", content |-> "c1", score |-> 9000]
WebItem2 == [title |-> "T2", url |-> "http://u2", content |-> Rep("w", 301)]
ProviderResponses == {[results |-> <<>>], [results |-> <<WebItem1>>], [results |-> <<WebItem1, WebItem2>>, answer |-> "short answer"], [answer |-> "no results key"]}

NormalizeItem(item) == [title |-> Get(item, "title", ""), url |-> Get(item, "url", ""), content |-> Get(item, "content", ""), score |-> Get(item, "score", 0)]

MutSearchOkNewestFirst(q, response) ==
    LET items == Get(response, "results", <<>>)
    IN  [success |-> TRUE, query |-> q, results |-> [i \in 1 .. Len(items) |-> NormalizeItem(items[Len(items) + 1 - i])], answer |-> IF "answer" \in DOMAIN response THEN Some(response.answer) ELSE None]

\* WebSearchTool.search when the provider answers with response
search_ok(q, response) ==
    LET items == Get(response, "results", <<>>)
    IN  [success |-> TRUE, query |-> q, results |-> [i \in 1 .. Len(items) |-> NormalizeItem(items[i])], answer |-> IF "answer" \in DOMAIN response THEN Some(response.answer) ELSE None]

\* WebSearchTool.search when the provider call raises
search_failed(q) == [success |-> FALSE, query |-> q, error |-> "provider error", results |-> <<>>]

\* WebSearchTool.search, the provider answering (Some(response)) or raising (None)
search(q, provider) == IF provider.some THEN search_ok(q, provider.val) ELSE search_failed(q)

WebBlock(i, item) == "[Web Source " \o ToString(i) \o "]: " \o item.title \o "\nURL: " \o item.url \o "\nContent: " \o Take(item.content, 300) \o "..."

\* AgentExecutor._format_web_results
format_web_results(res) == IF ~res.success \/ Len(res.results) = 0 THEN "No web results found." ELSE Join("\n\n", [i \in 1 .. Len(res.results) |-> WebBlock(i, res.results[i])])

MutWebSourcesZeroBased(res) == [i \in 1 .. Len(res.results) |-> [id |-> i - 1, title |-> res.results[i].title, url |-> res.results[i].url, snippet |-> Take(res.results[i].content, 150) \o "..."]]

\* the web_sources list run builds from a successful search
WebSources(res) == [i \in 1 .. Len(res.results) |-> [id |-> i, title |-> res.results[i].title, url |-> res.results[i].url, snippet |-> Take(res.results[i].content, 150) \o "..."]]

valid_intents == {"documents", "web_search", "calculator", "general"}

MutClassifyIntentUnvalidated(completion, has_relevant_docs) == Lower(Strip(completion))

\* ToolRouter.classify_intent, given the text the completion call returned
classify_intent(completion, has_relevant_docs) ==
    LET res == Lower(Strip(completion))
    IN  IF res \notin valid_intents THEN (IF has_relevant_docs THEN "documents" ELSE "general") ELSE res

\* what the router's completion call can return
Completions == {"documents", "web_search", "calculator", "general", " Documents\n", "none of these"}

---------------------------------------------------------------------------
(* app/agents.py: AgentExecutor *)

\* how many turns the model's agent serves
MaxTurns == 2

\* the length beyond which run cuts conversation_history
HistoryCap == 20

Queries == {"What is 12 * 7?", "12 * 7"}

\* what the generation call can return for a query
Answers(q) == {"Re: " \o q}

HumanMessage(c) == [role |-> "human", content |-> c]
AIMessage(c) == [role |-> "ai", content |-> c]

\* [(doc, score) for doc, score in results if score >= self.min_relevance]
MutFilteredKeepAll(results) == results

RECURSIVE Filtered(_)
Filtered(results) == IF Len(results) = 0 THEN <<>> ELSE (IF Head(results)[2] >= min_relevance THEN <<Head(results)>> ELSE <<>>) \o Filtered(Tail(results))

MutUpdateHistoryKeepOldest(h, q, response) == LET h2 == h \o <<HumanMessage(q), AIMessage(response)>> IN IF Len(h2) > HistoryCap THEN Take(h2, HistoryCap) ELSE h2

MutUpdateHistoryAssistantFirst(h, q, response) == LET h2 == h \o <<AIMessage(response), HumanMessage(q)>> IN IF Len(h2) > HistoryCap THEN LastN(h2, HistoryCap) ELSE h2

\* step 5 of run: the new conversation_history
UpdateHistory(h, q, response) == LET h2 == h \o <<HumanMessage(q), AIMessage(response)>> IN IF Len(h2) > HistoryCap THEN LastN(h2, HistoryCap) ELSE h2

MutBuildResultCountsCitations(response, tool, srcs, websrcs) == [answer |-> response, tool_used |-> tool, sources |-> srcs, web_sources |-> websrcs, used_rag |-> (tool = "documents"), documents_searched |-> Len(citations)]

\* step 6 of run: the dict returned
BuildResult(response, tool, srcs, websrcs) == [answer |-> response, tool_used |-> tool, sources |-> srcs, web_sources |-> websrcs, used_rag |-> (tool = "documents"), documents_searched |-> IF srcs.some /\ Len(srcs.val) > 0 THEN Len(srcs.val) ELSE 0]

\* run's locals before it is entered and after it has returned
NoLocals ==
    /\ query' = ""
    /\ store_relevant' = FALSE
    /\ store_raised' = FALSE
    /\ has_docs' = FALSE
    /\ doc_results' = <<>>
    /\ intent' = ""
    /\ tool_used' = ""
    /\ context' = ""
    /\ web_results' = None
    /\ web_sources' = None
    /\ sources' = None
    /\ calc_result' = None
    /\ prompt' = None
    /\ steps' = <<>>
    /\ result' = None

MutAfterRetrievalError == "failed"

\* where run stands after _check_document_relevance's except clause has
\* returned (False, [])
AfterRetrievalError == "checked"

\* _get_embeddings_manager returns a manager: EmbeddingsManager's
\* constructor raises when the index does not exist
ManagerConstructs == index_exists

\* run is entered with query q and does step 1, _check_document_relevance:
\* the store answers with some results, or the manager or the search raises
CheckDocumentRelevance(qs, outcomes, maxTurns) ==
    /\ pc = "idle"
    /\ turn < maxTurns
    /\ \E q \in qs :
        /\ query' = q
        /\ \/ \E results \in outcomes :
                LET filtered == Filtered(results)
                IN  /\ ManagerConstructs
                    /\ store_relevant' = (\E i \in 1 .. Len(results) : results[i][2] >= min_relevance)
                    /\ store_raised' = FALSE
                    /\ IF Len(filtered) > 0
                           THEN /\ citations' = create_citations_from_results(citations, filtered)
                                /\ cm_input' = filtered
                                /\ cm_prev' = citations
                                /\ has_docs' = TRUE
                                /\ doc_results' = filtered
                           ELSE /\ has_docs' = FALSE
                                /\ doc_results' = <<>>
                                /\ UNCHANGED citeVars
           \/ /\ store_relevant' = FALSE
              /\ store_raised' = TRUE
              /\ has_docs' = FALSE
              /\ doc_results' = <<>>
              /\ UNCHANGED citeVars
    /\ pc' = IF store_raised' THEN AfterRetrievalError ELSE "checked"
    /\ turn' = turn + 1
    /\ steps' = <<"retrieve">>
    /\ UNCHANGED <<intent, tool_used, context, web_results, web_sources, sources, calc_result, prompt, result>>
    /\ UNCHANGED <<envVars, histVars, toolVars, memVars, ragVars>>

\* step 2 of run: the router's completion call returns a text, or raises
Route ==
    /\ pc = "checked"
    /\ \/ \E completion \in Completions :
            /\ intent' = classify_intent(completion, has_docs)
            /\ pc' = "routed"
       \/ /\ pc' = "failed"
          /\ UNCHANGED intent
    /\ steps' = Append(steps, "route")
    /\ UNCHANGED <<turn, query, store_relevant, store_raised, has_docs, doc_results, tool_used, context, web_results, web_sources, sources, calc_result, prompt, result>>
    /\ UNCHANGED <<envVars, citeVars, histVars, toolVars, memVars, ragVars>>

\* the web branch of step 3, the search having returned res
MutGatherWebKeepsSources(res) ==
    /\ tool_used' = "web_search"
    /\ web_results' = Some(res)
    /\ context' = format_web_results(res)
    /\ web_sources' = IF res.success THEN Some(WebSources(res)) ELSE None
    /\ sources' = format_sources_for_response(citations)
    /\ UNCHANGED calc_result

GatherWeb(res) ==
    /\ tool_used' = "web_search"
    /\ web_results' = Some(res)
    /\ context' = format_web_results(res)
    /\ web_sources' = IF res.success THEN Some(WebSources(res)) ELSE None
    /\ UNCHANGED <<sources, calc_result>>

MutDocsBranchAnyDocuments(i, h) == i = "documents"

\* the condition of run's documents branch
DocsBranch(i, h) == i = "documents" /\ h

MutWebBranchNoFallback(i, h) == i = "web_search"

\* the condition of run's web search branch
WebBranch(i, h) == i = "web_search" \/ (i = "documents" /\ ~h)

\* the tool step 3 of run calls
ToolCalls(i, h) == IF DocsBranch(i, h) THEN <<>> ELSE IF WebBranch(i, h) THEN <<"web_search">> ELSE IF i = "calculator" THEN <<"calculator">> ELSE <<>>

\* step 3 of run: the branch on intent
Gather ==
    /\ pc = "routed"
    /\ IF DocsBranch(intent, has_docs)
           THEN /\ tool_used' = intent
                /\ context' = build_context_with_citations(citations)
                /\ sources' = format_sources_for_response(citations)
                /\ UNCHANGED <<web_results, web_sources, calc_result>>
       ELSE IF WebBranch(intent, has_docs)
           THEN \/ \E response \in ProviderResponses : GatherWeb(search_ok(query, response))
                \/ GatherWeb(search_failed(query))
       ELSE IF intent = "calculator"
           THEN \E calc \in {calculate(query).out} :
                /\ tool_used' = intent
                /\ calc_result' = Some(calc)
                /\ context' = IF calc.success THEN calc.expression \o " = " \o PyStr(calc.result) ELSE "Could not calculate: " \o calc.error
                /\ UNCHANGED <<web_results, web_sources, sources>>
       ELSE /\ tool_used' = "general"
            /\ context' = ""
            /\ UNCHANGED <<web_results, web_sources, sources, calc_result>>
    /\ pc' = "gathered"
    /\ steps' = steps \o <<"gather">> \o ToolCalls(intent, has_docs)
    /\ UNCHANGED <<turn, query, store_relevant, store_raised, has_docs, doc_results, intent, prompt, result>>
    /\ UNCHANGED <<envVars, citeVars, histVars, toolVars, memVars, ragVars>>

MutHistoryAfterFailure(history, q) == Append(history, HumanMessage(q))

\* conversation_history when _generate_response has raised: step 5 is not reached
HistoryAfterFailure(history, q) == history

SystemMessage(c) == [role |-> "system", content |-> c]

\* the text _generate_response puts under CONVERSATION HISTORY: the last 6
\* messages, a content of more than 200 characters cut to 200 and "..."
ConvContext(history) ==
    IF Len(history) = 0 THEN ""
    ELSE LET recent == LastN(history, 6)
         IN  Join("\n", [i \in 1 .. Len(recent) |->
                 (IF recent[i].role = "human" THEN "User" ELSE "Assistant") \o ": " \o
                 (IF Len(recent[i].content) > 200 THEN Take(recent[i].content, 200) \o "..." ELSE recent[i].content)])

\* system_content: which of the four texts it is, and what fills its holes
SystemContent(ctx, tool, history) ==
    [template |-> IF tool \in {"documents", "web_search", "calculator"} THEN tool ELSE "general",
     context |-> IF tool \in {"documents", "web_search", "calculator"} THEN ctx ELSE "",
     history |-> ConvContext(history)]

\* the messages of _generate_response's prompt
AgentPrompt(q, ctx, tool, history) == <<SystemMessage(SystemContent(ctx, tool, history)), HumanMessage(q)>>

\* steps 4 to 6 of run: the generation call returns and run returns its result,
\* or the call raises and so does run
Generate ==
    /\ pc = "gathered"
    /\ prompt' = Some(AgentPrompt(query, context, tool_used, conversation_history))
    /\ \/ \E response \in Answers(query) :
            /\ conversation_history' = UpdateHistory(conversation_history, query, response)
            /\ agent_log' = agent_log \o <<HumanMessage(query), AIMessage(response)>>
            /\ result' = Some(BuildResult(response, tool_used, sources, web_sources))
            /\ steps' = steps \o <<"generate", "append user", "append assistant", "package">>
            /\ pc' = "done"
       \/ /\ pc' = "failed"
          /\ conversation_history' = HistoryAfterFailure(conversation_history, query)
          /\ steps' = Append(steps, "generate")
          /\ UNCHANGED <<agent_log, result>>
    /\ UNCHANGED <<turn, query, store_relevant, store_raised, has_docs, doc_results, intent, tool_used, context, web_results, web_sources, sources, calc_result>>
    /\ UNCHANGED <<envVars, citeVars, toolVars, memVars, ragVars>>

\* the caller has run's result, or its exception
Return ==
    /\ pc \in {"done", "failed"}
    /\ pc' = "idle"
    /\ NoLocals
    /\ UNCHANGED <<turn, envVars, citeVars, histVars, toolVars, memVars, ragVars>>

\* AgentExecutor.clear_history
clear_history ==
    /\ pc = "idle"
    /\ conversation_history # <<>>
    /\ conversation_history' = <<>>
    /\ agent_log' = <<>>
    /\ UNCHANGED <<envVars, citeVars, runVars, toolVars, memVars, ragVars>>

Retrieve == service = "agent" /\ CheckDocumentRelevance(Queries, AgentStoreResults, MaxTurns)

---------------------------------------------------------------------------
(* app/retrieval.py: ConversationMemory and RAGChain *)

\* ConversationMemory's max_messages as RAGChain constructs it
max_messages == 10

\* the score below which retrieve_with_scores drops a result, 0.15
rag_min_score == 1500

\* how much of page_content _build_context puts in a source's snippet
RagSnippetLen == 200

\* the n-th question of a conversation that has logged the given messages
NextQuestion(log) == "q" \o ToString(Len(log) \div 2 + 1)

\* ConversationMemory._trim_if_needed
trim_if_needed(ms) == IF Len(ms) > max_messages * 2 THEN LastN(ms, max_messages * 2) ELSE ms

\* RAGChain.retrieve_with_scores when the store returns results
MutRetrieveStrictlyAbove(results) == LET Above(r) == r[2] > rag_min_score IN SelectSeq(results, Above)

RECURSIVE retrieve_with_scores(_)
retrieve_with_scores(results) == IF Len(results) = 0 THEN <<>> ELSE (IF Head(results)[2] >= rag_min_score THEN <<Head(results)>> ELSE <<>>) \o retrieve_with_scores(Tail(results))

\* f"{x:.0%}" of a score already rounded to 3 places
Percent0(score) == LET q == score \div 100 r == score % 100 IN ToString(IF r > 50 \/ (r = 50 /\ q % 2 = 1) THEN q + 1 ELSE q) \o "%"

\* _build_context: the source_info of one retrieved passage
SourceInfo(doc, score) ==
    [source |-> Get(doc.metadata, "source", "Unknown"),
     page |-> Get(doc.metadata, "page", 0) + 1,
     chunk_index |-> Get(doc.metadata, "chunk_index", 0),
     relevance_score |-> Round3(score),
     snippet |-> Take(doc.page_content, RagSnippetLen) \o "..."]

\* _build_context: the context part of the i-th retrieved passage
DocumentBlock(i, doc, score) ==
    "[Document " \o ToString(i) \o ": " \o SourceInfo(doc, score).source \o ", Page " \o ToString(SourceInfo(doc, score).page)
        \o ", Relevance: " \o Percent0(Round3(score)) \o "]\n" \o doc.page_content

\* RAGChain._build_context
build_context(retrieved_docs) ==
    [context |-> Join("\n\n---\n\n", [i \in 1 .. Len(retrieved_docs) |-> DocumentBlock(i, retrieved_docs[i][1], retrieved_docs[i][2])]),
     sources |-> [i \in 1 .. Len(retrieved_docs) |-> SourceInfo(retrieved_docs[i][1], retrieved_docs[i][2])]]

\* query's locals before it is entered and after it has returned
NoRagLocals ==
    /\ rag_question' = ""
    /\ rag_store' = "not called"
    /\ rag_retrieved' = None
    /\ rag_context' = ""
    /\ rag_sources' = <<>>
    /\ rag_used_rag' = FALSE
    /\ rag_response' = ""
    /\ rag_prompt' = None
    /\ rag_result' = None

\* step 1 of query found nothing to put in the prompt
RagNoContext ==
    /\ rag_context' = ""
    /\ rag_sources' = <<>>
    /\ rag_used_rag' = FALSE

\* RAGChain.query is entered and does step 1: with use_rag it calls
\* retrieve_with_scores, which returns the store's filtered results or lets
\* the store's exception through to query's except clause
RagRetrieve(qs, outcomes, maxLogged) ==
    /\ service = "rag"
    /\ rag_pc = "idle"
    /\ Len(mem_log) < maxLogged
    /\ \E question \in qs : rag_question' = question
    /\ \/ \E results \in outcomes :
            LET retrieved == retrieve_with_scores(results)
            IN  /\ ManagerConstructs
                /\ rag_store' = "returned"
                /\ rag_retrieved' = Some([raised |-> FALSE, value |-> retrieved])
                /\ IF Len(retrieved) > 0
                       THEN /\ rag_context' = build_context(retrieved).context
                            /\ rag_sources' = build_context(retrieved).sources
                            /\ rag_used_rag' = TRUE
                       ELSE RagNoContext
       \/ /\ rag_store' = "raised"
          /\ rag_retrieved' = Some([raised |-> TRUE, value |-> <<>>])
          /\ RagNoContext
       \/ /\ rag_store' = "not called"
          /\ rag_retrieved' = None
          /\ RagNoContext
    /\ rag_pc' = "retrieved"
    /\ UNCHANGED <<rag_response, rag_prompt, rag_result, service, messages, mem_log, chat_history, chat_log>>
    /\ UNCHANGED <<envVars, citeVars, runVars, histVars, toolVars>>

\* steps 2 and 3 of query: the chain answers or raises
\* ConversationMemory.get_context_string
get_context_string(ms) ==
    IF Len(ms) = 0 THEN ""
    ELSE LET recent == LastN(ms, 6)
         IN  Join("\n", [i \in 1 .. Len(recent) |-> (IF recent[i].role = "human" THEN "User" ELSE "Assistant") \o ": " \o recent[i].content])

\* RAGChain._get_system_prompt: which of the two texts it is, and what
\* fills its holes
get_system_prompt(ctx, has_context, ms) ==
    IF has_context THEN [template |-> "documents", context |-> ctx, history |-> get_context_string(ms)]
    ELSE [template |-> "no documents"]

\* the messages of query's prompt: the last one is a HumanMessage object,
\* which ChatPromptTemplate sends as it is, so its text is the literal
\* "{input}" and not the question
RagPrompt(question, ctx, ms) == <<SystemMessage(get_system_prompt(ctx, ctx # "", ms))>> \o ms \o <<HumanMessage("{input}")>>

RagGenerate ==
    /\ rag_pc = "retrieved"
    /\ rag_prompt' = Some(RagPrompt(rag_question, rag_context, messages))
    /\ \/ \E response \in Answers(rag_question) :
            /\ rag_response' = response
            /\ rag_pc' = "generated"
       \/ /\ rag_pc' = "failed"
          /\ UNCHANGED rag_response
    /\ UNCHANGED <<rag_question, rag_store, rag_retrieved, rag_context, rag_sources, rag_used_rag, rag_result>>
    /\ UNCHANGED <<service, messages, mem_log, chat_history, chat_log, envVars, citeVars, runVars, histVars, toolVars>>

\* step 4 of query, self.memory.add_user_message(question)
add_user_message ==
    /\ rag_pc = "generated"
    /\ messages' = trim_if_needed(Append(messages, HumanMessage(rag_question)))
    /\ mem_log' = Append(mem_log, HumanMessage(rag_question))
    /\ rag_pc' = "asked"
    /\ UNCHANGED <<ragVars, service, chat_history, chat_log, envVars, citeVars, runVars, histVars, toolVars>>

\* step 4 of query, self.memory.add_ai_message(response), and the return
add_ai_message ==
    /\ rag_pc = "asked"
    /\ messages' = trim_if_needed(Append(messages, AIMessage(rag_response)))
    /\ mem_log' = Append(mem_log, AIMessage(rag_response))
    /\ rag_result' = Some([answer |-> rag_response, sources |-> IF Len(rag_sources) > 0 THEN Some(rag_sources) ELSE None,
                           used_rag |-> rag_used_rag, documents_searched |-> Len(rag_sources)])
    /\ rag_pc' = "done"
    /\ UNCHANGED <<rag_question, rag_store, rag_retrieved, rag_context, rag_sources, rag_used_rag, rag_response, rag_prompt>>
    /\ UNCHANGED <<service, chat_history, chat_log, envVars, citeVars, runVars, histVars, toolVars>>

\* query has returned or raised
RagReturn ==
    /\ rag_pc \in {"done", "failed"}
    /\ rag_pc' = "idle"
    /\ NoRagLocals
    /\ UNCHANGED <<service, messages, mem_log, chat_history, chat_log, envVars, citeVars, runVars, histVars, toolVars>>

\* RAGChain.clear_memory
clear_memory ==
    /\ rag_pc = "idle"
    /\ messages # <<>>
    /\ messages' = <<>>
    /\ mem_log' = <<>>
    /\ UNCHANGED <<ragVars, service, rag_pc, chat_history, chat_log, envVars, citeVars, runVars, histVars, toolVars>>

---------------------------------------------------------------------------
(* The agent service and the RAG chain, a few turns each *)

\* the objects as their constructors leave them
Fresh ==
    /\ citations = <<>>
    /\ cm_input = <<>>
    /\ cm_prev = <<>>
    /\ pc = "idle"
    /\ turn = 0
    /\ query = ""
    /\ store_relevant = FALSE
    /\ store_raised = FALSE
    /\ has_docs = FALSE
    /\ doc_results = <<>>
    /\ intent = ""
    /\ tool_used = ""
    /\ context = ""
    /\ web_results = None
    /\ web_sources = None
    /\ sources = None
    /\ calc_result = None
    /\ prompt = None
    /\ steps = <<>>
    /\ result = None
    /\ conversation_history = <<>>
    /\ agent_log = <<>>
    /\ calc_out = None
    /\ ws_out = None
    /\ ci_out = None
    /\ cs_out = None
    /\ rd_agent = None
    /\ rd_memory = None
    /\ sn_out = None
    /\ relevance_out = None
    /\ retrieved_out = None
    /\ evaluated = FALSE
    /\ messages = <<>>
    /\ mem_log = <<>>
    /\ rag_pc = "idle"
    /\ chat_history = <<>>
    /\ chat_log = <<>>
    /\ rag_question = ""
    /\ rag_store = "not called"
    /\ rag_retrieved = None
    /\ rag_context = ""
    /\ rag_sources = <<>>
    /\ rag_used_rag = FALSE
    /\ rag_response = ""
    /\ rag_prompt = None
    /\ rag_result = None

\* no call of a tool on its own is pending
NoCalcInput == expression = ""
NoWebInput == ws_query = "" /\ ws_provider = None
NoRouteInput == ci_completion = "" /\ ci_has_docs = FALSE
NoStoreInput == store_results = <<>>
NoRequests == getter = "" /\ instance = None /\ ctor_calls = 0 /\ built = 0 /\ calls = <<>> /\ running = None
NoChats == runs = <<>>
NoRenderInput == rd_history = <<>>
NoSnippetInput == sn_content = "" /\ sn_max_length = 0
NoUpload == up_filename = "" /\ up_pc = "idle" /\ up_saved = FALSE /\ up_loader = "" /\ up_out = None

\* the agent service (backend/main.py), the first service (app/main.py) and
\* a program that drives the RAG chain are three programs
Services == {"agent", "first", "rag"}

\* a query of a short conversation with the RAG chain
RagQuery == RagRetrieve(Queries, AgentStoreResults, 2 * MaxTurns)

Init ==
    /\ str_hash \in StrHashes
    /\ index_exists \in BOOLEAN
    /\ service \in {"agent", "rag"}
    /\ NoCalcInput /\ NoWebInput /\ NoRouteInput /\ NoStoreInput /\ NoRequests /\ NoChats /\ NoUpload
    /\ NoRenderInput /\ NoSnippetInput
    /\ Fresh

Next ==
    \/ Retrieve \/ Route \/ Gather \/ Generate \/ Return \/ clear_history
    \/ RagQuery \/ RagGenerate \/ add_user_message \/ add_ai_message \/ RagReturn \/ clear_memory

Spec == Init /\ [][Next]_vars

---------------------------------------------------------------------------
(* The citation manager on its own: any result list, after any other *)

\* CitationManager.create_citations_from_results(results)
CreateCitations ==
    /\ \E results \in CiteResults :
        /\ citations' = create_citations_from_results(citations, results)
        /\ cm_input' = results
        /\ cm_prev' = citations
    /\ cs_out' = None
    /\ UNCHANGED <<rd_history, rd_agent, rd_memory, sn_content, sn_max_length, sn_out>>
    /\ UNCHANGED <<envVars, runVars, histVars, otherTools, memVars, ragVars>>

\* CitationManager.clear
clear ==
    /\ citations # <<>>
    /\ citations' = <<>>
    /\ cs_out' = None
    /\ UNCHANGED <<rd_history, rd_agent, rd_memory, sn_content, sn_max_length, sn_out>>
    /\ UNCHANGED <<cm_input, cm_prev, envVars, runVars, histVars, otherTools, memVars, ragVars>>

\* CitationManager.get_citations_summary()
GetCitationsSummary ==
    /\ cs_out = None
    /\ cs_out' = Some(get_citations_summary(citations))
    /\ UNCHANGED <<rd_history, rd_agent, rd_memory, sn_content, sn_max_length, sn_out>>
    /\ UNCHANGED <<citeVars, envVars, runVars, histVars, otherTools, memVars, ragVars>>

NextCite == CreateCitations \/ clear \/ GetCitationsSummary

\* a process that holds a fresh CitationManager
InitCite == Init /\ service = "agent" /\ index_exists

SpecCite == InitCite /\ [][NextCite]_vars

---------------------------------------------------------------------------
(* The calculator on its own: any short expression *)

\* the longest expression made of ExprChars
MaxExprLen == 3

\* digits, operators, a blank, a line end, a letter and an underscore
ExprChars == {"1", "2", "+", "*", " ", "\n", "a", "_"}

RECURSIVE StringsUpTo(_, _)
StringsUpTo(chars, n) == IF n = 0 THEN {""} ELSE (CHOOSE y \in {shorter \cup {s \o c : s \in shorter, c \in chars} : shorter \in {StringsUpTo(chars, n - 1)}} : TRUE)

\* the expressions calculate is given
Expressions == StringsUpTo(ExprChars, MaxExprLen) \cup {"12 * 7", "What is 12 * 7?", "__import__('os')", "1 +\t2", "\t7 ", "1/0", "7 % 0", "...", "(", "1(2)"}

\* CalculatorTool.calculate(expression)
Calculate ==
    /\ ~calc_out.some
    /\ \E r \in {calculate(expression)} :
        /\ calc_out' = Some(r.out)
        /\ evaluated' = r.evaluated
    /\ UNCHANGED <<expression, webVars, routeVars, retrVars, singleVars, runs, uploadVars, pureVars, envVars, citeVars, runVars, histVars, memVars, ragVars>>

InitCalc ==
    /\ str_hash \in StrHashes
    /\ index_exists = TRUE
    /\ service = "agent"
    /\ expression \in Expressions
    /\ NoWebInput /\ NoRouteInput /\ NoStoreInput /\ NoRequests /\ NoChats /\ NoUpload
    /\ NoRenderInput /\ NoSnippetInput
    /\ Fresh

NextCalc == Calculate

SpecCalc == InitCalc /\ [][NextCalc]_vars



---------------------------------------------------------------------------
(* The web search tool on its own: any short provider response *)

\* the most results the model's provider returns
MaxWebResults == 2

\* search's default max_results
SearchMaxResults == 3

\* a provider result holding none of the keys search reads
WebItem3 == [raw_content |-> "r3"]

\* what self.client.search can do: answer with up to MaxWebResults results,
\* with or without an answer, answer without a results key, or raise
WebProviderOutcomes ==
    LET lists == SeqsUpTo({WebItem1, WebItem2, WebItem3}, Min(MaxWebResults, SearchMaxResults))
    IN  {Some([results |-> l]) : l \in lists} \cup {Some([results |-> l, answer |-> "short answer"]) : l \in lists}
            \cup {Some([answer |-> "no results key"]), None}

\* WebSearchTool.search(query)
Search ==
    /\ ~ws_out.some
    /\ ws_out' = Some(search(ws_query, ws_provider))
    /\ UNCHANGED <<ws_query, ws_provider, calcVars, routeVars, retrVars, singleVars, runs, uploadVars, pureVars, envVars, citeVars, runVars, histVars, memVars, ragVars>>

InitWeb ==
    /\ str_hash \in StrHashes
    /\ index_exists = TRUE
    /\ service = "agent"
    /\ ws_query \in Queries
    /\ ws_provider \in WebProviderOutcomes
    /\ NoCalcInput /\ NoRouteInput /\ NoStoreInput /\ NoRequests /\ NoChats /\ NoUpload
    /\ NoRenderInput /\ NoSnippetInput
    /\ Fresh

NextWeb == Search

SpecWeb == InitWeb /\ [][NextWeb]_vars

---------------------------------------------------------------------------
(* The router on its own: any completion text *)

\* the texts the completion call can return: a label or another text, in
\* some letter case, inside some whitespace
RouteTexts == {"documents", "web_search", "calculator", "general", "Documents", "WEB_SEARCH", "Calculator", "GENERAL", "", "document", "documents.", "web search", "I think: general", "none of these"}
RoutePadding == {"", " ", "\n", "\t "}
RouteCompletions == {before \o text \o after : before \in RoutePadding, text \in RouteTexts, after \in RoutePadding}

\* ToolRouter.classify_intent(query, has_relevant_docs), the completion call returning
ClassifyIntent ==
    /\ ci_out = None
    /\ ci_out' = Some(classify_intent(ci_completion, ci_has_docs))
    /\ UNCHANGED <<ci_completion, ci_has_docs, calcVars, webVars, retrVars, singleVars, runs, uploadVars, pureVars, envVars, citeVars, runVars, histVars, memVars, ragVars>>

InitRoute ==
    /\ str_hash \in StrHashes
    /\ index_exists = TRUE
    /\ service = "agent"
    /\ ci_completion \in RouteCompletions
    /\ ci_has_docs \in BOOLEAN
    /\ NoCalcInput /\ NoWebInput /\ NoStoreInput /\ NoRequests /\ NoChats /\ NoUpload
    /\ NoRenderInput /\ NoSnippetInput
    /\ Fresh

NextRoute == ClassifyIntent

SpecRoute == InitRoute /\ [][NextRoute]_vars

---------------------------------------------------------------------------
(* The two retrievals on their own: any answer of the store *)

\* how many results the store returns to one search
MaxStoreResults == 3

\* what similarity_search_with_score can return: passages with scores below,
\* at and above 0.15, in any order
StoreResults == SeqsUpTo({<<DocA1, 1499>>, <<DocA1, 1500>>, <<DocB, 1501>>, <<DocB, 1000>>, <<DocA2, 9000>>}, Min(MaxStoreResults, RetrievalK))

\* AgentExecutor._check_document_relevance(query), the store returning
CheckRelevanceAlone ==
    /\ relevance_out = None
    /\ LET filtered == Filtered(store_results)
       IN  IF Len(filtered) > 0
               THEN /\ citations' = create_citations_from_results(citations, filtered)
                    /\ cm_input' = filtered
                    /\ cm_prev' = citations
                    /\ relevance_out' = Some(<<TRUE, filtered>>)
               ELSE /\ relevance_out' = Some(<<FALSE, <<>>>>)
                    /\ UNCHANGED citeVars
    /\ UNCHANGED <<store_results, retrieved_out, calcVars, webVars, routeVars, singleVars, runs, uploadVars, pureVars, envVars, runVars, histVars, memVars, ragVars>>

\* RAGChain.retrieve_with_scores(query), the store returning
RetrieveAlone ==
    /\ retrieved_out = None
    /\ retrieved_out' = Some(retrieve_with_scores(store_results))
    /\ UNCHANGED <<store_results, relevance_out, calcVars, webVars, routeVars, singleVars, runs, uploadVars, pureVars, envVars, citeVars, runVars, histVars, memVars, ragVars>>

InitRetrieve ==
    /\ str_hash \in StrHashes
    /\ index_exists = TRUE
    /\ service = "agent"
    /\ store_results \in StoreResults
    /\ NoCalcInput /\ NoWebInput /\ NoRouteInput /\ NoRequests /\ NoChats /\ NoUpload
    /\ NoRenderInput /\ NoSnippetInput
    /\ Fresh

NextRetrieve == CheckRelevanceAlone \/ RetrieveAlone

SpecRetrieve == InitRetrieve /\ [][NextRetrieve]_vars

---------------------------------------------------------------------------
(* The lazily constructed globals, called by the handlers of some requests *)

\* how many requests call the function
MaxCalls == 3

Requests == 1 .. MaxCalls

\* the functions that construct a module global on first use
Getters == {"get_agent", "get_rag_chain", "get_embeddings_manager"}

MutCanRunAnyTime(r) == TRUE

\* the handlers are coroutines (async def) of one event loop and await
\* nothing between entering the function and leaving it: the loop runs
\* request r's handler only when it runs no other
CanRun(r) == running = None \/ running = Some(r)

\* the loop starts request r's handler, which calls the function
EnterGetter(r) ==
    /\ calls[r].pc = "waiting"
    /\ CanRun(r)
    /\ running' = Some(r)
    /\ calls' = [calls EXCEPT ![r].pc = "check"]
    /\ UNCHANGED <<getter, instance, ctor_calls, built>>

\* if _instance is None:
CheckInstance(r) ==
    /\ calls[r].pc = "check"
    /\ CanRun(r)
    /\ calls' = [calls EXCEPT ![r].pc = IF instance = None THEN "construct" ELSE "return"]
    /\ UNCHANGED <<getter, instance, ctor_calls, built, running>>

\* the constructor call: it returns a new object, or raises (no API key, no
\* index), and then so do the function and the handler
Construct(r) ==
    /\ calls[r].pc = "construct"
    /\ CanRun(r)
    /\ ctor_calls' = ctor_calls + 1
    /\ \/ /\ built' = built + 1
          /\ calls' = [calls EXCEPT ![r].pc = "assign", ![r].new = Some(built + 1)]
          /\ UNCHANGED running
       \/ /\ calls' = [calls EXCEPT ![r].pc = "raised"]
          /\ running' = None
          /\ UNCHANGED built
    /\ UNCHANGED <<getter, instance>>

\* _instance = <the new object>
AssignInstance(r) ==
    /\ calls[r].pc = "assign"
    /\ CanRun(r)
    /\ instance' = calls[r].new
    /\ calls' = [calls EXCEPT ![r].pc = "return"]
    /\ UNCHANGED <<getter, ctor_calls, built, running>>

\* return _instance, and the handler runs to its end
ReturnInstance(r) ==
    /\ calls[r].pc = "return"
    /\ CanRun(r)
    /\ calls' = [calls EXCEPT ![r].pc = "returned", ![r].ret = instance]
    /\ running' = None
    /\ UNCHANGED <<getter, instance, ctor_calls, built>>

GetInstance ==
    /\ \E r \in Requests : EnterGetter(r) \/ CheckInstance(r) \/ Construct(r) \/ AssignInstance(r) \/ ReturnInstance(r)
    /\ UNCHANGED <<calcVars, webVars, routeVars, retrVars, runs, uploadVars, pureVars, envVars, citeVars, runVars, histVars, memVars, ragVars>>

InitSingleton ==
    /\ str_hash \in StrHashes
    /\ index_exists = TRUE
    /\ service = "agent"
    /\ getter \in Getters
    /\ instance = None
    /\ ctor_calls = 0
    /\ built = 0
    /\ calls = [r \in Requests |-> [pc |-> "waiting", new |-> None, ret |-> None]]
    /\ running = None
    /\ NoCalcInput /\ NoWebInput /\ NoRouteInput /\ NoStoreInput /\ NoChats /\ NoUpload
    /\ NoRenderInput /\ NoSnippetInput
    /\ Fresh

NextSingleton == GetInstance

SpecSingleton == InitSingleton /\ [][NextSingleton]_vars

---------------------------------------------------------------------------
(* Two chat requests on the one agent *)

\* how many chat requests are in flight
MaxChats == 2

Chats == 1 .. MaxChats

\* what the store holds for a request's message, already filtered
ChatPassages == {<<>>, <<<<DocA1, 7500>>>>, <<<<DocB, 5004>>>>}

\* the request's message
ChatMessage(r) == "q" \o ToString(r)

\* the loop starts request r's chat handler; run does step 1,
\* _check_document_relevance, which rebuilds the agent's citation list
ChatRetrieve(r) ==
    /\ runs[r].pc = "waiting"
    /\ CanRun(r)
    /\ running' = Some(r)
    /\ \E filtered \in ChatPassages :
        IF Len(filtered) > 0
            THEN /\ citations' = create_citations_from_results(citations, filtered)
                 /\ cm_input' = filtered
                 /\ cm_prev' = citations
                 /\ runs' = [runs EXCEPT ![r].pc = "checked", ![r].has_docs = TRUE, ![r].built = Some(citations')]
            ELSE /\ runs' = [runs EXCEPT ![r].pc = "checked"]
                 /\ UNCHANGED citeVars
    /\ UNCHANGED histVars

\* step 2 of run
ChatRoute(r) ==
    /\ runs[r].pc = "checked"
    /\ CanRun(r)
    /\ \/ /\ \E i \in {"documents", "general"} : runs' = [runs EXCEPT ![r].pc = "routed", ![r].intent = i]
          /\ UNCHANGED running
       \/ /\ runs' = [runs EXCEPT ![r].pc = "failed"]
          /\ running' = None
    /\ UNCHANGED <<citeVars, histVars>>

\* step 3 of run: the documents branch reads the agent's citation list
ChatGather(r) ==
    /\ runs[r].pc = "routed"
    /\ CanRun(r)
    /\ runs' = [runs EXCEPT ![r].pc = "gathered", ![r].read = IF DocsBranch(runs[r].intent, runs[r].has_docs) THEN Some(citations) ELSE None]
    /\ UNCHANGED <<citeVars, histVars, running>>

\* step 4 of run
ChatGenerate(r) ==
    /\ runs[r].pc = "gathered"
    /\ CanRun(r)
    /\ \/ /\ \E response \in Answers(ChatMessage(r)) : runs' = [runs EXCEPT ![r].pc = "generated", ![r].response = response]
          /\ UNCHANGED running
       \/ /\ runs' = [runs EXCEPT ![r].pc = "failed"]
          /\ running' = None
    /\ UNCHANGED <<citeVars, histVars>>

\* step 5 of run, the first append
ChatAppendHuman(r) ==
    /\ runs[r].pc = "generated"
    /\ CanRun(r)
    /\ conversation_history' = Append(conversation_history, HumanMessage(ChatMessage(r)))
    /\ agent_log' = Append(agent_log, HumanMessage(ChatMessage(r)))
    /\ runs' = [runs EXCEPT ![r].pc = "asked"]
    /\ UNCHANGED <<citeVars, running>>

\* step 5 of run, the second append and the cut to the last 20; run
\* returns and the handler runs to its end
ChatAppendAI(r) ==
    /\ runs[r].pc = "asked"
    /\ CanRun(r)
    /\ conversation_history' = LET h2 == Append(conversation_history, AIMessage(runs[r].response)) IN IF Len(h2) > HistoryCap THEN LastN(h2, HistoryCap) ELSE h2
    /\ agent_log' = Append(agent_log, AIMessage(runs[r].response))
    /\ runs' = [runs EXCEPT ![r].pc = "done"]
    /\ running' = None
    /\ UNCHANGED citeVars

Chat ==
    /\ \E r \in Chats : ChatRetrieve(r) \/ ChatRoute(r) \/ ChatGather(r) \/ ChatGenerate(r) \/ ChatAppendHuman(r) \/ ChatAppendAI(r)
    /\ UNCHANGED <<pc, turn, query, store_relevant, store_raised, has_docs, doc_results, intent, tool_used, context, web_results, web_sources, sources, calc_result, prompt, steps, result>>
    /\ UNCHANGED <<getter, instance, ctor_calls, built, calls>>
    /\ UNCHANGED <<calcVars, webVars, routeVars, retrVars, uploadVars, pureVars, envVars, memVars, ragVars>>

InitChats ==
    /\ str_hash \in StrHashes
    /\ index_exists = TRUE
    /\ service = "agent"
    /\ runs = [r \in Chats |-> [pc |-> "waiting", has_docs |-> FALSE, built |-> None, intent |-> "", read |-> None, response |-> ""]]
    /\ NoCalcInput /\ NoWebInput /\ NoRouteInput /\ NoStoreInput /\ NoRequests /\ NoUpload
    /\ NoRenderInput /\ NoSnippetInput
    /\ Fresh

NextChats == Chat

SpecChats == InitChats /\ [][NextChats]_vars

---------------------------------------------------------------------------
(* backend/main.py: upload_document, and app/document.py: load_document *)

\* settings.ALLOWED_EXTENSIONS
ALLOWED_EXTENSIONS == {".pdf", ".txt", ".docx", ".md"}

UPLOAD_DIR == "uploads"

\* os.path.splitext(p)[1]: from the last dot of the last path component,
\* unless only dots come before it there
SplitExt(p) ==
    LET sepIndex == RFind(p, "/")
        dotIndex == RFind(p, ".")
    IN  IF dotIndex > sepIndex /\ \E i \in sepIndex + 1 .. dotIndex - 1 : CharAt(p, i + 1) # "."
            THEN SubSeq(p, dotIndex + 1, Len(p))
            ELSE ""

\* the loader load_document constructs for an extension, or its ValueError
LoaderFor(file_extension) == IF file_extension = ".pdf" THEN "PyPDFLoader" ELSE IF file_extension \in {".txt", ".md"} THEN "TextLoader" ELSE "unsupported"

\* the names a client uploads files under
MaxNameLen == 11

Filenames == {n \in {"a.pdf", "B.TXT", "notes.md", "report.docx", "cv.DocX", "run.exe", "README", ".pdf", "x.tar.gz", "a.pdf.txt", "old.doc", "..md", "data.csv", "photo.jpeg", "Thesis.PDF", "todo.Md"} : Len(n) <= MaxNameLen}

HTTPException(status_code, detail) == Some([status_code |-> status_code, detail |-> detail])

\* the extension check of upload_document
UploadCheck ==
    /\ up_pc = "idle"
    /\ up_out = None
    /\ IF Lower(SplitExt(up_filename)) \in ALLOWED_EXTENSIONS
           THEN /\ up_pc' = "allowed"
                /\ UNCHANGED up_out
           ELSE /\ up_pc' = "idle"
                /\ up_out' = HTTPException(400, "File type " \o Lower(SplitExt(up_filename)) \o " not supported")
    /\ UNCHANGED <<up_filename, up_saved, up_loader>>

\* the file is written to the uploads directory, or writing it raises
UploadSave ==
    /\ up_pc = "allowed"
    /\ \/ /\ up_saved' = TRUE
          /\ up_pc' = "saved"
          /\ UNCHANGED up_out
       \/ /\ up_pc' = "idle"
          /\ up_out' = HTTPException(500, "Failed to save file")
          /\ UNCHANGED up_saved
    /\ UNCHANGED <<up_filename, up_loader>>

\* document_processor.process_document(file_path): load_document chooses
\* the loader by the path's extension or raises; the loader may raise too
UploadProcess ==
    /\ up_pc = "saved"
    /\ up_loader' = LoaderFor(Lower(SplitExt(UPLOAD_DIR \o "/" \o up_filename)))
    /\ \/ /\ up_loader' # "unsupported"
          /\ up_pc' = "processed"
          /\ UNCHANGED <<up_saved, up_out>>
       \/ /\ up_pc' = "idle"
          /\ up_saved' = FALSE
          /\ up_out' = HTTPException(500, IF up_loader' = "unsupported" THEN "Failed to process: Unsupported file type: " \o Lower(SplitExt(UPLOAD_DIR \o "/" \o up_filename)) ELSE "Failed to process")
    /\ UNCHANGED up_filename

\* the chunks go to the vector store, or the manager or the store raises
UploadStore ==
    /\ up_pc = "processed"
    /\ up_pc' = "idle"
    /\ \/ up_out' = Some([status_code |-> 200, detail |-> "success"])
       \/ up_out' = HTTPException(500, "Failed to store")
    /\ UNCHANGED <<up_filename, up_saved, up_loader>>

upload_document ==
    /\ UploadCheck \/ UploadSave \/ UploadProcess \/ UploadStore
    /\ UNCHANGED <<calcVars, webVars, routeVars, retrVars, singleVars, runs, pureVars, envVars, citeVars, runVars, histVars, memVars, ragVars>>

InitUpload ==
    /\ str_hash \in StrHashes
    /\ index_exists = TRUE
    /\ service = "agent"
    /\ up_filename \in Filenames
    /\ up_pc = "idle"
    /\ up_saved = FALSE
    /\ up_loader = ""
    /\ up_out = None
    /\ NoCalcInput /\ NoWebInput /\ NoRouteInput /\ NoStoreInput /\ NoRequests /\ NoChats
    /\ NoRenderInput /\ NoSnippetInput
    /\ Fresh

NextUpload == upload_document

SpecUpload == InitUpload /\ [][NextUpload]_vars

---------------------------------------------------------------------------
(* The three bounded histories over many exchanges *)

\* how many turns the agent serves in a long conversation
MaxTurnsLong == 12

\* how many messages a long conversation with the RAG chain or with the
\* first service adds
MaxLogged == 24

\* the length beyond which chat of app/main.py drops the two oldest entries
ChatHistoryCap == 20

\* chat of app/main.py from its "Update chat history" on
chat ==
    /\ service = "first"
    /\ Len(chat_log) < MaxLogged
    /\ \E message \in {NextQuestion(chat_log)} : \E response \in Answers(message) :
        LET appended == chat_history \o <<HumanMessage(message), AIMessage(response)>>
        IN  /\ chat_history' = IF Len(appended) > ChatHistoryCap THEN Tail(Tail(appended)) ELSE appended
            /\ chat_log' = chat_log \o <<HumanMessage(message), AIMessage(response)>>
    /\ UNCHANGED <<service, messages, mem_log, rag_pc, envVars, citeVars, runVars, histVars, toolVars, ragVars>>

\* clear_history of app/main.py
chat_clear_history ==
    /\ chat_history # <<>>
    /\ chat_history' = <<>>
    /\ chat_log' = <<>>
    /\ UNCHANGED <<service, messages, mem_log, rag_pc, envVars, citeVars, runVars, histVars, toolVars, ragVars>>

\* a turn of a long conversation with the agent, whose store is empty
RetrieveLong == service = "agent" /\ CheckDocumentRelevance({NextQuestion(agent_log)}, {<<>>}, MaxTurnsLong)

\* a query of a long conversation with the RAG chain, whose store is empty
RagQueryLong == RagRetrieve({NextQuestion(mem_log)}, {<<>>}, MaxLogged)

InitMem ==
    /\ str_hash \in StrHashes
    /\ index_exists = TRUE
    /\ service \in Services
    /\ NoCalcInput /\ NoWebInput /\ NoRouteInput /\ NoStoreInput /\ NoRequests /\ NoChats /\ NoUpload
    /\ NoRenderInput /\ NoSnippetInput
    /\ Fresh

NextMem ==
    \/ RetrieveLong \/ Route \/ Gather \/ Generate \/ Return \/ clear_history
    \/ RagQueryLong \/ RagGenerate \/ add_user_message \/ add_ai_message \/ RagReturn \/ clear_memory
    \/ chat \/ chat_clear_history

SpecMem == InitMem /\ [][NextMem]_vars

---------------------------------------------------------------------------
(* The two renderings of the recent conversation on their own *)

\* the most exchanges of a history that is rendered
MaxExchanges == 4

\* exchanges whose messages are short, 200, 201 and 301 characters long
RenderExchanges == {<<"q", "a">>, <<Rep("x", 200), Rep("y", 201)>>, <<Rep("z", 301), "ok">>}

\* the history after the exchanges es: a user message and the assistant's
\* message for each
HistoryOf(es) == [i \in 1 .. 2 * Len(es) |-> IF i % 2 = 1 THEN HumanMessage(es[(i + 1) \div 2][1]) ELSE AIMessage(es[i \div 2][2])]

RenderHistories == {HistoryOf(es) : es \in SeqsUpTo(RenderExchanges, MaxExchanges)}

\* _generate_response's rendering of conversation_history
RenderAgent ==
    /\ rd_agent = None
    /\ rd_agent' = Some(ConvContext(rd_history))
    /\ UNCHANGED <<rd_history, rd_memory, cs_out, sn_content, sn_max_length, sn_out>>
    /\ UNCHANGED <<otherTools, envVars, citeVars, runVars, histVars, memVars, ragVars>>

\* ConversationMemory.get_context_string() on the same messages
RenderMemory ==
    /\ rd_memory = None
    /\ rd_memory' = Some(get_context_string(rd_history))
    /\ UNCHANGED <<rd_history, rd_agent, cs_out, sn_content, sn_max_length, sn_out>>
    /\ UNCHANGED <<otherTools, envVars, citeVars, runVars, histVars, memVars, ragVars>>

InitRender ==
    /\ str_hash \in StrHashes
    /\ index_exists = TRUE
    /\ service = "agent"
    /\ rd_history \in RenderHistories
    /\ NoCalcInput /\ NoWebInput /\ NoRouteInput /\ NoStoreInput /\ NoRequests /\ NoChats /\ NoUpload /\ NoSnippetInput
    /\ Fresh

NextRender == RenderAgent \/ RenderMemory

SpecRender == InitRender /\ [][NextRender]_vars

---------------------------------------------------------------------------
(* _create_snippet on its own: any short content *)

\* the longest content given to _create_snippet
MaxSnippetContent == 6

\* a letter, the period and the space
SnippetChars == {"a", ".", " "}

\* the values of max_length
SnippetLengths == {3, 4, 5}

\* CitationManager._create_snippet(content, max_length)
CreateSnippet ==
    /\ sn_out = None
    /\ sn_out' = Some(create_snippet(sn_content, sn_max_length))
    /\ UNCHANGED <<sn_content, sn_max_length, cs_out, rd_history, rd_agent, rd_memory>>
    /\ UNCHANGED <<otherTools, envVars, citeVars, runVars, histVars, memVars, ragVars>>

InitSnippet ==
    /\ str_hash \in StrHashes
    /\ index_exists = TRUE
    /\ service = "agent"
    /\ sn_content \in StringsUpTo(SnippetChars, MaxSnippetContent)
    /\ sn_max_length \in SnippetLengths
    /\ NoCalcInput /\ NoWebInput /\ NoRouteInput /\ NoStoreInput /\ NoRequests /\ NoChats /\ NoUpload /\ NoRenderInput
    /\ Fresh

NextSnippet == CreateSnippet

SpecSnippet == InitSnippet /\ [][NextSnippet]_vars

---------------------------------------------------------------------------
(* Properties of AgentExecutor.run *)

\* C1: whenever the router returns documents and retrieval produced no
\* passage at or above the relevance threshold, the web search adapter is
\* called, tool_used is "web_search" and the result's used_rag is false.
C1_DocumentsWithoutPassagesGoesToWeb ==
    (pc \in {"gathered", "done"} /\ intent = "documents" /\ ~store_relevant) =>
        /\ web_results.some
        /\ tool_used = "web_search"
        /\ pc = "done" => (result.val.tool_used = "web_search" /\ result.val.used_rag = FALSE)

C1_Witness == pc = "done" /\ intent = "documents" /\ ~store_relevant /\ result.val.tool_used = "web_search" /\ web_results.some

\* C2: for the query "What is 12 * 7?" with the router yielding calculator,
\* the calculator succeeds with result 84, the context given to generation
\* is the equation-and-result string, and tool_used is "calculator".
C2_CalculatorAnswers84 ==
    (pc \in {"gathered", "done"} /\ query = "What is 12 * 7?" /\ intent = "calculator") =>
        /\ calc_result.some
        /\ calc_result.val.success
        /\ calc_result.val.result = IntV(84)
        /\ context = "What is 12 * 7? = 84"
        /\ tool_used = "calculator"

\* C3: when no retrieved passage is scored at or above the threshold, or
\* retrieval failed, then whatever the router said the result has
\* used_rag = false and a tool_used other than "documents".
C3_NoPassagesNoRag ==
    (pc \in {"gathered", "done"} /\ ~store_relevant) =>
        /\ tool_used # "documents"
        /\ pc = "done" => (result.val.used_rag = FALSE /\ result.val.tool_used # "documents")

C3_Witness == pc = "done" /\ ~store_relevant /\ turn = 2 /\ Len(citations) > 0 /\ result.val.used_rag = FALSE

\* C4: the sources of a turn's result, and its document context, are built
\* from that same turn's retrieval results; a turn whose retrieval is empty
\* or fails returns no sources, whatever the manager still holds.
C4_SourcesAreThisTurns ==
    pc \in {"gathered", "done"} =>
        /\ sources.some => (Len(doc_results) > 0 /\ sources = format_sources_for_response(create_citations_from_results(<<>>, doc_results)))
        /\ tool_used = "documents" => (Len(doc_results) > 0 /\ context = build_context_with_citations(create_citations_from_results(<<>>, doc_results)))
        /\ Len(doc_results) = 0 => (~sources.some /\ tool_used # "documents")
        /\ pc = "done" => result.val.sources = sources

C4_Witness == pc = "done" /\ turn = 2 /\ Len(doc_results) = 0 /\ Len(citations) > 0 /\ intent = "documents" /\ ~result.val.sources.some

\* C5: after a turn whose retrieval produced no relevant passage, or raised,
\* the CitationManager holds no citations.
C5_CitationsClearedEveryQuery == (pc \in {"checked", "routed", "gathered", "done"} /\ ~store_relevant) => Len(citations) = 0

---------------------------------------------------------------------------
(* Properties of CitationManager.create_citations_from_results *)

\* C6: after create_citations_from_results the citation ids are exactly
\* 1..N, dense and in list order, whatever the manager held before.
C6_IdsDenseFromOne ==
    /\ \A i \in 1 .. Len(citations) : citations[i].citation_id = i
    /\ Len(citations) <= Len(cm_input)

C6_Witness == Len(cm_prev) = 2 /\ Len(citations) = 2 /\ citations[2].citation_id = 2 /\ cm_prev # citations

\* the positions of results whose 200-character prefix no earlier result has
FirstOccurrences(results) ==
    {i \in 1 .. Len(results) : \A j \in 1 .. i - 1 :
        Take(results[j][1].page_content, PrefixLen) # Take(results[i][1].page_content, PrefixLen)}

\* C7: results with equal first 200 characters yield one citation, carrying
\* the first occurrence's source, page and score; results with different
\* prefixes are never collapsed and keep their order.
C7_DedupByPrefix ==
    LET firsts == FirstOccurrences(cm_input)
    IN  /\ Len(citations) = Cardinality(firsts)
        /\ \A k \in 1 .. Len(citations) :
            LET first == cm_input[Kth(firsts, k)]
            IN  /\ citations[k].full_content = first[1].page_content
                /\ citations[k].source = Get(first[1].metadata, "source", "Unknown")
                /\ citations[k].page = Get(first[1].metadata, "page", 0) + 1
                /\ citations[k].relevance_score = Round3(first[2])

---------------------------------------------------------------------------
(* Properties of the bounded histories *)

\* C8: the memory of the RAG chain, the agent's conversation_history and the
\* chat history of the first service never hold more than their cap (twice
\* max_messages; 20) and always hold the most recently added entries, in
\* the order they were added.
C8_HistoryIsTheMostRecent ==
    /\ Len(messages) <= 2 * max_messages
    /\ messages = LastN(mem_log, 2 * max_messages)
    /\ Len(conversation_history) <= HistoryCap
    /\ conversation_history = LastN(agent_log, HistoryCap)
    /\ Len(chat_history) <= ChatHistoryCap
    /\ chat_history = LastN(chat_log, ChatHistoryCap)

C8_Witness == Len(agent_log) = HistoryCap + 2 /\ Len(conversation_history) = HistoryCap /\ conversation_history[1] = agent_log[3]

\* C9: after every add_user_message and add_ai_message, trims included, the
\* memory starts with a user entry and alternates user and assistant.
C9_MemoryStaysPaired ==
    \A i \in 1 .. Len(messages) : messages[i] = IF i % 2 = 1 THEN HumanMessage(messages[i].content) ELSE AIMessage(messages[i].content)

---------------------------------------------------------------------------
(* Properties of CalculatorTool.calculate *)

\* the positions of expression holding a character outside the whitelist
Outside(e) == {i \in 1 .. Len(e) : CharAt(e, i) \notin allowed_chars}

\* calculate returned the validation error and did not call eval
Rejected == ~calc_out.val.success /\ calc_out.val.error = "Invalid characters in expression" /\ ~evaluated

\* C10 as stated: every expression holding a character outside the whitelist
\* (digits, + - * / . ( ) % and space) is rejected with the validation error
\* and never evaluated.
C10_AnyOutsideCharRejected == (calc_out.some /\ Outside(expression) # {}) => Rejected

\* C10, amended: every expression holding a character outside the whitelist
\* that is not leading or trailing whitespace, so every expression holding a
\* letter or an underscore, is rejected with the validation error and never
\* evaluated.
C10_InnerOutsideCharRejected ==
    (/\ calc_out.some
     /\ \E i \in Outside(expression) :
            \/ ~IsSpace(CharAt(expression, i))
            \/ /\ \E j \in 1 .. i - 1 : ~IsSpace(CharAt(expression, j))
               /\ \E j \in i + 1 .. Len(expression) : ~IsSpace(CharAt(expression, j)))
    => Rejected

C10_Witness == calc_out.some /\ expression = "__import__('os')" /\ Rejected

\* C11: calculate never raises: it always returns a dict, and for every
\* whitelisted expression whose evaluation fails (division by zero, malformed
\* syntax, the empty expression) the dict has success = false, the original
\* expression and an error message.
C11_EvaluationErrorsAreReturned ==
    calc_out.some =>
        /\ "success" \in DOMAIN calc_out.val
        /\ calc_out.val.expression = expression
        /\ (AllAllowed(Strip(expression)) /\ PyEval(Strip(expression)).k = "err") =>
            /\ ~calc_out.val.success
            /\ DOMAIN calc_out.val = {"success", "expression", "error"}
            /\ calc_out.val.error \in {"SyntaxError", "ZeroDivisionError", "TypeError", "OverflowError"}
            /\ evaluated

C11_Witness == calc_out.some /\ expression = "1/0" /\ ~calc_out.val.success /\ calc_out.val.error = "ZeroDivisionError" /\ evaluated

---------------------------------------------------------------------------
(* Properties of WebSearchTool.search *)

\* C12: search never raises: it always returns a dict.  When the provider
\* call fails the dict has success = false, an error message, the original
\* query and an empty results list; when it succeeds the dict has
\* success = true and one {title, url, content, score} entry per provider
\* result, in provider order.
C12_SearchAlwaysReturns ==
    ws_out.some =>
        /\ "success" \in DOMAIN ws_out.val
        /\ ws_out.val.query = ws_query
        /\ ~ws_provider.some =>
            /\ ~ws_out.val.success
            /\ ws_out.val.error # ""
            /\ ws_out.val.results = <<>>
        /\ ws_provider.some =>
            LET given == IF "results" \in DOMAIN ws_provider.val THEN ws_provider.val.results ELSE <<>>
            IN  /\ ws_out.val.success
                /\ Len(ws_out.val.results) = Len(given)
                /\ \A i \in 1 .. Len(given) :
                    /\ DOMAIN ws_out.val.results[i] = {"title", "url", "content", "score"}
                    /\ \A key \in DOMAIN given[i] \cap {"title", "url", "content", "score"} : ws_out.val.results[i][key] = given[i][key]
                    /\ \A key \in {"title", "url", "content", "score"} \ DOMAIN given[i] : ws_out.val.results[i][key] = IF key = "score" THEN 0 ELSE ""

C12_Witness == ws_out.some /\ ws_provider.some /\ Len(ws_out.val.results) = 2 /\ ws_out.val.results[1].title = "T2" /\ ws_out.val.results[2].title = "T1"

---------------------------------------------------------------------------
(* Properties of ToolRouter.classify_intent *)

\* C13: whenever the completion call returns, classify_intent returns one of
\* documents, web_search, calculator and general: the trimmed, lower-cased
\* completion if that is one of the four, and otherwise documents if
\* has_relevant_docs and general if not.
C13_IntentIsAlwaysValid ==
    ci_out.some =>
        /\ ci_out.val \in {"documents", "web_search", "calculator", "general"}
        /\ Lower(Strip(ci_completion)) \in {"documents", "web_search", "calculator", "general"} => ci_out.val = Lower(Strip(ci_completion))
        /\ Lower(Strip(ci_completion)) \notin {"documents", "web_search", "calculator", "general"} => ci_out.val = IF ci_has_docs THEN "documents" ELSE "general"

C13_Witness == ci_out.some /\ ci_completion = "\t I think: general\n" /\ ci_has_docs /\ ci_out.val = "documents"

---------------------------------------------------------------------------
(* Properties of retrieval *)

\* a store exception in the agent's turn leaves the turn with no passages,
\* and the turn goes on to routing
AgentSurvivesStoreError ==
    /\ (pc # "idle" /\ store_raised) => (~has_docs /\ doc_results = <<>> /\ ~sources.some)
    /\ (pc = "done" /\ store_raised) => (result.some /\ ~result.val.used_rag /\ ~result.val.sources.some)

\* a store exception in the RAG chain's query leaves the query with no
\* passages
RagSurvivesStoreError ==
    /\ rag_store = "raised" => (rag_pc # "idle" /\ rag_context = "" /\ rag_sources = <<>> /\ ~rag_used_rag)
    /\ (rag_pc = "done" /\ rag_store = "raised") => (rag_result.some /\ ~rag_result.val.used_rag /\ ~rag_result.val.sources.some)

\* the step that met a store exception hands over to the next step
StoreErrorGoesOn ==
    /\ (pc = "idle" /\ store_raised') => pc' = "checked"
    /\ (rag_pc = "idle" /\ rag_store' = "raised") => rag_pc' = "retrieved"

\* C14 as stated: an exception of the vector store is caught and treated as
\* no relevant passages: neither retrieval operation propagates it, and the
\* turn goes on with an empty passage set.
C14_StoreErrorNeverPropagated ==
    /\ AgentSurvivesStoreError
    /\ RagSurvivesStoreError
    /\ rag_store = "raised" => ~rag_retrieved.val.raised

\* C14, amended: an exception of the vector store never aborts the turn.
\* _check_document_relevance catches it; RAGChain.retrieve_with_scores lets
\* it through and RAGChain.query catches it; either turn goes on to routing
\* and generation with an empty passage set.
C14_StoreErrorNeverAbortsTurn ==
    /\ [](AgentSurvivesStoreError /\ RagSurvivesStoreError)
    /\ [](rag_store = "raised" => rag_retrieved.val.raised)
    /\ [][StoreErrorGoesOn]_vars

C14_Witness == rag_pc = "done" /\ rag_store = "raised" /\ rag_retrieved.val.raised /\ rag_result.val.answer = "Re: 12 * 7"

\* the results of the store that score at least 0.15, in the store's order
AtLeastThreshold(results) == LET Keeps(r) == r[2] >= 1500 IN SelectSeq(results, Keeps)

---------------------------------------------------------------------------
(* Properties of a failing turn *)

\* a step of AgentExecutor.run that ends in the exception, and the step after it
AgentFailureStep ==
    /\ pc' \in {"checked", "routed", "gathered", "failed"} => UNCHANGED histVars
    /\ pc' = "failed" => (pc \in {"checked", "gathered"} /\ result' = None)
    /\ pc = "failed" => (pc' = "idle" /\ turn' = turn /\ result' = None /\ UNCHANGED histVars)

\* a step of RAGChain.query that ends in the exception, and the step after it
RagFailureStep ==
    /\ rag_pc' \in {"retrieved", "generated", "failed"} => UNCHANGED <<messages, mem_log>>
    /\ rag_pc' = "failed" => (rag_pc = "retrieved" /\ rag_result' = None)
    /\ rag_pc = "failed" => (rag_pc' = "idle" /\ rag_result' = None /\ UNCHANGED <<messages, mem_log>>)

\* C16: when the routing call or the generation call raises in run, or the
\* generation call raises in query, the caller gets the exception and no
\* result, nothing is generated again for that turn, and the history is the
\* one from before the turn.
C16_FailedTurnLeavesNoTrace ==
    /\ [](pc = "failed" => result = None)
    /\ [](rag_pc = "failed" => rag_result = None)
    /\ [][AgentFailureStep /\ RagFailureStep]_vars

C16_Witness == pc = "failed" /\ intent # "" /\ Len(conversation_history) = 2 /\ turn = 2 /\ agent_log = conversation_history

---------------------------------------------------------------------------
(* Properties of the lazily constructed globals *)

\* C17 as stated: whatever the calls of the function and their order, the
\* constructor runs once and every call returns the one object.
C17_ConstructedOnceReturnedByAll ==
    /\ ctor_calls <= 1
    /\ \A r \in DOMAIN calls : calls[r].pc \in {"returned", "raised"} => (calls[r].pc = "returned" /\ calls[r].ret = Some(1))

\* C17, amended: the handlers' calls run one at a time; the constructor
\* returns at most one object, the global holds it from then on, and every
\* call that returns returns it. A call whose constructor raises returns
\* nothing and leaves the global unset, and the next call constructs again.
C17_OneObjectForTheCallsThatReturn ==
    /\ built <= 1
    /\ instance.some => (built = 1 /\ instance = Some(1))
    /\ ctor_calls > built => \E r \in DOMAIN calls : calls[r].pc = "raised"
    /\ \A r \in DOMAIN calls :
        /\ calls[r].pc = "returned" => (calls[r].ret = Some(1) /\ calls[r].ret = instance)
        /\ calls[r].pc = "raised" => (calls[r].ret = None /\ calls[r].new = None)

C17_Witness ==
    /\ getter = "get_embeddings_manager"
    /\ calls[1].pc = "raised" /\ calls[2].pc = "returned" /\ calls[3].pc = "returned"
    /\ ctor_calls = 2 /\ built = 1 /\ instance = Some(1)
    /\ calls[2].ret = calls[3].ret

---------------------------------------------------------------------------
(* Properties of requests on the one agent *)

\* where request r's message stands in the history
AskedAt(r) == {i \in 1 .. Len(conversation_history) : conversation_history[i] = HumanMessage(ChatMessage(r))}

\* C18: whatever the order in which the chat requests arrive, the turns on
\* the one agent run one after the other: the citation list a turn reads in
\* step 3 is the one its own step 1 built, and its two history entries are
\* next to each other.
C18_TurnsDoNotInterleave ==
    \A r \in DOMAIN runs :
        /\ runs[r].read.some => runs[r].read = runs[r].built
        /\ runs[r].pc = "asked" => conversation_history[Len(conversation_history)] = HumanMessage(ChatMessage(r))
        /\ runs[r].pc = "done" => \E i \in AskedAt(r) : i < Len(conversation_history) /\ conversation_history[i + 1] = AIMessage(runs[r].response)

C18_Witness ==
    /\ runs # <<>>
    /\ \A r \in DOMAIN runs : runs[r].pc = "done" /\ runs[r].read.some /\ runs[r].read = runs[r].built
    /\ runs[1].read # runs[2].read
    /\ conversation_history = <<HumanMessage("q2"), AIMessage("Re: q2"), HumanMessage("q1"), AIMessage("Re: q1")>>

---------------------------------------------------------------------------
(* Properties of a missing index *)

\* C19 as stated: when the index does not exist, so that EmbeddingsManager's
\* constructor raises, a turn of the agent does not complete as a normal
\* answer.
C19_MissingIndexIsSurfaced == (service = "agent" /\ ~index_exists) => ~(pc = "done" /\ result.some)

---------------------------------------------------------------------------
(* Properties of an upload *)

\* C20: a file whose extension is not supported is rejected by the
\* extension check: every extension that passes the check is one
\* load_document has a loader for.
C20_AllowedExtensionsAreLoadable ==
    /\ up_loader # "unsupported"
    /\ (up_out.some /\ up_out.val.status_code # 400) => LoaderFor(Lower(SplitExt(up_filename))) # "unsupported"

---------------------------------------------------------------------------
(* Properties of the citations summary *)

\* C21: for a manager that holds citations, get_citations_summary reports
\* the mean of their scores rounded to 3 decimals, their number, and the
\* number of distinct sources; scores 0.5 and 0.75 give 0.625, with the
\* labels Medium and High.
C21_SummaryOfTheCitationsHeld ==
    (cs_out.some /\ Len(citations) > 0) =>
        /\ cs_out.val.total_sources = Len(citations)
        /\ cs_out.val.unique_documents = Cardinality({citations[i].source : i \in 1 .. Len(citations)})
        /\ cs_out.val.average_relevance % 10 = 0
        /\ \A m \in {cs_out.val.average_relevance * Len(citations) - SumScores(citations)} : -5 * Len(citations) <= m /\ m <= 5 * Len(citations)
        /\ ({citations[i].relevance_score : i \in 1 .. Len(citations)} = {5000, 7500} /\ Len(citations) = 2) =>
                /\ cs_out.val.average_relevance = 6250
                /\ {cs_out.val.citations[i].relevance_label : i \in 1 .. 2} = {"Medium", "High"}

C21_Witness ==
    /\ cs_out.some /\ Len(citations) = 2
    /\ citations[1].relevance_score = 7500 /\ citations[2].relevance_score = 5000
    /\ cs_out.val.average_relevance = 6250
    /\ cs_out.val.citations[1].relevance_label = "High" /\ cs_out.val.citations[2].relevance_label = "Medium"
    /\ cs_out.val.unique_documents = 2

\* C22: whatever the manager holds, nothing included, the summary has the
\* fields total_sources, unique_documents, average_relevance and citations.
C22_SummaryAlwaysHasFourFields ==
    cs_out.some => {"total_sources", "unique_documents", "average_relevance", "citations"} \subseteq DOMAIN cs_out.val

---------------------------------------------------------------------------
(* Properties of the prompt *)

\* C23: when the history is empty, the recent-conversation text in the
\* prompt is a placeholder saying so, never the empty string.
C23_EmptyHistoryHasPlaceholder ==
    [][/\ (pc = "gathered" /\ prompt'.some /\ conversation_history = <<>>) => prompt'.val[1].content.history # ""
       /\ (rag_pc = "retrieved" /\ rag_prompt'.some /\ messages = <<>> /\ rag_prompt'.val[1].content.template = "documents")
              => rag_prompt'.val[1].content.history # ""]_vars

\* C24: the prompt of a turn is the system prompt, then every retained
\* history message, then the new user query as the last message, in run and
\* in query alike.
C24_PromptIsSystemHistoryQuery ==
    [][/\ (pc = "gathered" /\ prompt'.some)
              => prompt'.val = <<prompt'.val[1]>> \o conversation_history \o <<HumanMessage(query)>>
       /\ (rag_pc = "retrieved" /\ rag_prompt'.some)
              => rag_prompt'.val = <<rag_prompt'.val[1]>> \o messages \o <<HumanMessage(rag_question)>>]_vars

---------------------------------------------------------------------------
(* Properties of the order of a turn *)

\* what a whole turn of run does when its step 3 makes the tool calls t
TurnSteps(t) == <<"retrieve", "route", "gather">> \o t \o <<"generate", "append user", "append assistant", "package">>

\* the tool calls one turn can make: none, or one
OneToolAtMost == {<<>>, <<"web_search">>, <<"calculator">>}

IsPrefix(s, t) == Len(s) <= Len(t) /\ \A i \in 1 .. Len(s) : s[i] = t[i]

\* C25: a turn of run goes through retrieve, route, gather, generate, update
\* memory, package in that order and repeats none: one retrieval call, one
\* routing call, at most one tool call, one generation call; the history gets
\* the user message and then the assistant message, and only once the
\* generation call has returned.
C25_TurnStepsInFixedOrder ==
    /\ [](/\ \E t \in OneToolAtMost : IsPrefix(steps, TurnSteps(t))
          /\ pc = "done" => \E t \in OneToolAtMost : steps = TurnSteps(t)
          /\ pc = "failed" => steps[Len(steps)] \in {"route", "generate"})
    /\ [][(pc # "idle" /\ conversation_history' # conversation_history)
              => /\ pc = "gathered" /\ pc' = "done"
                 /\ LastN(conversation_history', 2) = <<HumanMessage(query), AIMessage(result'.val.answer)>>
                 /\ LastN(steps', 4) = <<"generate", "append user", "append assistant", "package">>]_vars

C25_Witness == pc = "done" /\ turn = 2 /\ steps = TurnSteps(<<"web_search">>) /\ Len(conversation_history) = 4

---------------------------------------------------------------------------
(* Properties of the result of a turn *)

\* C26: in every result tool_used is one of the four categories, used_rag
\* says exactly that it is "documents", sources are there only with
\* "documents" and web_sources only with "web_search", never both; when the
\* router answers web_search, calculator or general although relevant
\* passages were found, the citations built from them are not returned.
C26_ResultFieldsAgree ==
    result.some =>
        /\ result.val.tool_used \in {"documents", "web_search", "calculator", "general"}
        /\ result.val.used_rag <=> result.val.tool_used = "documents"
        /\ result.val.sources.some => result.val.tool_used = "documents"
        /\ result.val.web_sources.some => result.val.tool_used = "web_search"
        /\ ~(result.val.sources.some /\ result.val.web_sources.some)
        /\ (intent \in {"web_search", "calculator", "general"} /\ has_docs /\ Len(citations) > 0) => ~result.val.sources.some

C26_Witness == result.some /\ intent = "web_search" /\ has_docs /\ Len(citations) > 0 /\ result.val.web_sources.some /\ ~result.val.sources.some

\* the search of this turn failed
SearchFailed == web_results.some /\ ~web_results.val.success

\* C27: a web search that fails does not stop the turn: the generation call
\* is made with the context "No web results found.", tool_used stays
\* "web_search" and there are no web_sources; after a search that succeeds
\* the web sources are numbered 1..M in the order of the results.
C27_FailedSearchStillAnswers ==
    /\ SearchFailed =>
          /\ pc \in {"gathered", "done", "failed"}
          /\ context = "No web results found." /\ tool_used = "web_search" /\ web_sources = None
          /\ pc = "failed" => prompt.some
          /\ prompt.some => prompt.val[1].content.template = "web_search" /\ prompt.val[1].content.context = "No web results found."
          /\ result.some => result.val.tool_used = "web_search" /\ ~result.val.web_sources.some
    /\ (web_results.some /\ web_results.val.success) =>
          /\ web_sources.some
          /\ Len(web_sources.val) = Len(web_results.val.results)
          /\ \A i \in 1 .. Len(web_sources.val) :
                web_sources.val[i].id = i /\ web_sources.val[i].title = web_results.val.results[i].title
          /\ result.some => result.val.web_sources = web_sources

C27_Witness == SearchFailed /\ pc = "done" /\ result.val.answer = "Re: 12 * 7"

C27_WitnessNumbered == pc = "done" /\ result.val.web_sources.some /\ Len(result.val.web_sources.val) = 2

\* C28: documents_searched is the number of citations in sources, 4 at most,
\* and 0 whenever tool_used is not "documents", passages found or not.
C28_DocumentsSearchedCountsSources ==
    result.some =>
        IF result.val.tool_used = "documents"
            THEN /\ result.val.sources.some
                 /\ result.val.documents_searched = Len(result.val.sources.val)
                 /\ result.val.documents_searched = Len(citations)
                 /\ result.val.documents_searched <= RetrievalK
            ELSE result.val.documents_searched = 0

C28_Witness == result.some /\ result.val.tool_used = "calculator" /\ has_docs /\ Len(citations) > 0 /\ result.val.documents_searched = 0

C28_WitnessDocuments == result.some /\ result.val.tool_used = "documents" /\ Len(doc_results) = 2 /\ result.val.documents_searched = 1

---------------------------------------------------------------------------
(* Properties of the rendering of the recent conversation *)

\* the last 6 entries, oldest first, each as Role: content, a content longer
\* than limit cut to limit characters and "..."
RenderRecent(history, limit) ==
    LET recent == LastN(history, 6)
    IN  Join("\n", [i \in 1 .. Len(recent) |->
            (IF recent[i].role = "human" THEN "User" ELSE "Assistant") \o ": " \o
            (IF Len(recent[i].content) > limit THEN Take(recent[i].content, limit) \o "..." ELSE recent[i].content)])

\* C29: the recent conversation is rendered from the last 6 entries only,
\* oldest first, each as Role: content, every message longer than the limit
\* cut to 200 to 300 characters and an ellipsis, by get_context_string and by
\* _generate_response alike.
C29_RecentRenderingTruncates ==
    /\ (rd_agent.some /\ rd_history # <<>>) => \E limit \in 200 .. 300 : rd_agent.val = RenderRecent(rd_history, limit)
    /\ (rd_memory.some /\ rd_history # <<>>) => \E limit \in 200 .. 300 : rd_memory.val = RenderRecent(rd_history, limit)

---------------------------------------------------------------------------
(* Properties of CitationManager._create_snippet *)

\* C30: _create_snippet returns the whitespace-collapsed content as it is
\* when that is at most max_length long; otherwise the window of its first
\* max_length characters cut after its last period, without ellipsis, when
\* that period lies past half of max_length, else cut before its last space
\* with "..." appended, else whole with "..." appended; a snippet is never
\* longer than max_length + 3.
C30_SnippetCutsAtSentenceOrWord ==
    sn_out.some =>
        LET cleaned == Join(" ", SplitWs(sn_content))
            window == Take(cleaned, sn_max_length)
            periods == {i \in 1 .. Len(window) : CharAt(window, i) = "."}
            spaces == {i \in 1 .. Len(window) : CharAt(window, i) = " "}
        IN  /\ Len(sn_out.val) <= sn_max_length + 3
            /\ IF Len(cleaned) <= sn_max_length THEN sn_out.val = cleaned
               ELSE IF periods # {} /\ 2 * (SetMax(periods) - 1) > sn_max_length THEN sn_out.val = Take(cleaned, SetMax(periods))
               ELSE IF spaces # {} THEN sn_out.val = Take(cleaned, SetMax(spaces) - 1) \o "..."
               ELSE sn_out.val = window \o "..."

C30_Witness == sn_out.some /\ sn_content = " aaa.a" /\ sn_max_length = 4 /\ sn_out.val = "aaa."

C30_WitnessSpace == sn_out.some /\ sn_content = "a.  aa" /\ sn_max_length = 4 /\ sn_out.val = "a...."

C30_WitnessWindow == sn_out.some /\ sn_content = "aaaaaa" /\ sn_max_length = 3 /\ sn_out.val = "aaa..."

=============================================================================
